---- MODULE Spec2Model ----
(***************************************************************************)
(* A model of the TOON codec (packages/toon-python/src/toon).              *)
(*                                                                         *)
(* Text is modelled at character level: a string is a sequence of          *)
(* one-character strings, a text is a sequence of such lines.  JSON values *)
(* are tagged records:                                                     *)
(*   [t |-> "null"]  [t |-> "bool", b]  [t |-> "num", neg, d, sc]          *)
(*   [t |-> "str", s]  [t |-> "arr", e]  [t |-> "obj", e]                  *)
(* where an object's e is the insertion-ordered sequence of [k, v] entries *)
(* of a Python dict, and a number is (-1)^neg * d * 10^(-sc) in lowest     *)
(* terms, so that Python's 1 == 1.0 is equality of records.                *)
(***************************************************************************)
EXTENDS Integers, Sequences, FiniteSets, TLC

VARIABLES
    pc,       \* where the caller is: "start", "value", "lines", "stream" or "done"
    value,    \* the value handed to encode
    eopts,    \* the EncodeOptions of the call
    lines,    \* the raw lines handed to decode_lines
    dopts,    \* the DecodeOptions of the call
    given,    \* what the caller built the text from
    result,   \* what decode_lines returned or raised
    source,   \* the lines an async line source has yet to yield
    collected, \* the list decode_stream_async collects them in
    waited,   \* how often decode_stream_async was suspended waiting for a line
    cursor,   \* the _Cursor of a decode that is followed step by step
    steps     \* how many steps that decode has taken

vars == <<pc, value, eopts, lines, dopts, given, result, source, collected, waited,
          cursor, steps>>

stream == <<source, collected, waited>>

----------------------------------------------------------------------------
(* Characters *)

LF == "\n"
CR == "\r"
TAB == "\t"
QT == "\""
BS == "\\"
SP == " "

DigitChars == {"0", "1", "2", "3", "4", "5", "6", "7", "8", "9"}
LowerChars == {"a", "b", "c", "d", "e", "f", "g", "h", "i", "j", "k", "l", "m",
               "n", "o", "p", "q", "r", "s", "t", "u", "v", "w", "x", "y", "z"}
UpperChars == {"A", "B", "C", "D", "E", "F", "G", "H", "I", "J", "K", "L", "M",
               "N", "O", "P", "Q", "R", "S", "T", "U", "V", "W", "X", "Y", "Z"}
UpperSeq == <<"A", "B", "C", "D", "E", "F", "G", "H", "I", "J", "K", "L", "M",
              "N", "O", "P", "Q", "R", "S", "T", "U", "V", "W", "X", "Y", "Z">>
LowerSeq == <<"a", "b", "c", "d", "e", "f", "g", "h", "i", "j", "k", "l", "m",
              "n", "o", "p", "q", "r", "s", "t", "u", "v", "w", "x", "y", "z">>
DigitSeq == <<"0", "1", "2", "3", "4", "5", "6", "7", "8", "9">>

\* str.isspace for the characters of the model
WhiteChars == {SP, TAB, LF, CR}

isalpha(c) == c \in LowerChars \cup UpperChars
isdigit(c) == c \in DigitChars

RECURSIVE IndexIn(_, _, _)
IndexIn(c, seq, i) ==
    IF i > Len(seq) THEN 0 ELSE IF seq[i] = c THEN i ELSE IndexIn(c, seq, i + 1)

\* str.lower, one character
LowerChar(c) == IF c \in UpperChars THEN LowerSeq[IndexIn(c, UpperSeq, 1)] ELSE c
lower(s) == [i \in 1..Len(s) |-> LowerChar(s[i])]

DigitVal(c) == IndexIn(c, DigitSeq, 1) - 1

----------------------------------------------------------------------------
(* Python str helpers *)

Contains(s, c) == \E i \in 1..Len(s) : s[i] = c

\* s[i:] and s[:i] with 0-based slice bounds
From(s, i) == IF i >= Len(s) THEN <<>> ELSE SubSeq(s, i + 1, Len(s))
Upto(s, i) == IF i <= 0 THEN <<>> ELSE SubSeq(s, 1, IF i > Len(s) THEN Len(s) ELSE i)

RECURSIVE lstripSet(_, _)
lstripSet(s, cs) ==
    IF s # <<>> /\ Head(s) \in cs THEN lstripSet(Tail(s), cs) ELSE s

RECURSIVE rstripSet(_, _)
rstripSet(s, cs) ==
    IF s # <<>> /\ s[Len(s)] \in cs THEN rstripSet(SubSeq(s, 1, Len(s) - 1), cs) ELSE s

rstrip(s) == rstripSet(s, WhiteChars)
strip(s) == lstripSet(rstripSet(s, WhiteChars), WhiteChars)

startswith(s, p) == Len(s) >= Len(p) /\ SubSeq(s, 1, Len(p)) = p
endswith(s, p) == Len(s) >= Len(p) /\ SubSeq(s, Len(s) - Len(p) + 1, Len(s)) = p

\* p occurs in s as a substring
HasSub(s, p) == \E i \in 0..(Len(s) - Len(p)) : SubSeq(s, i + 1, i + Len(p)) = p

\* sep.join(parts)
RECURSIVE join(_, _)
join(sep, parts) ==
    IF parts = <<>> THEN <<>>
    ELSE IF Len(parts) = 1 THEN parts[1]
    ELSE parts[1] \o sep \o join(sep, Tail(parts))

\* s.split(c) for a one-character separator
RECURSIVE splitChar(_, _, _)
splitChar(s, c, cur) ==
    IF s = <<>> THEN <<cur>>
    ELSE IF Head(s) = c THEN <<cur>> \o splitChar(Tail(s), c, <<>>)
    ELSE splitChar(Tail(s), c, Append(cur, Head(s)))

Spaces(n) == [i \in 1..n |-> SP]

\* str(n) for a natural number
RECURSIVE NatStr(_)
NatStr(n) == IF n < 10 THEN <<DigitSeq[n + 1]>> ELSE NatStr(n \div 10) \o <<DigitSeq[(n % 10) + 1]>>

RECURSIVE Pow10(_)
Pow10(n) == IF n <= 0 THEN 1 ELSE 10 * Pow10(n - 1)

----------------------------------------------------------------------------
(* Values *)

Null == [t |-> "null"]
Bool(b) == [t |-> "bool", b |-> b]
Str(s) == [t |-> "str", s |-> s]
Arr(e) == [t |-> "arr", e |-> e]
Obj(e) == [t |-> "obj", e |-> e]
Ent(k, v) == [k |-> k, v |-> v]

\* the number (-1)^neg * d * 10^(-sc), brought to lowest terms
RECURSIVE NumNorm(_, _, _)
NumNorm(neg, d, sc) ==
    IF d = 0 THEN [t |-> "num", neg |-> FALSE, d |-> 0, sc |-> 0]
    ELSE IF sc < 0 THEN NumNorm(neg, d * 10, sc + 1)
    ELSE IF sc > 0 /\ d % 10 = 0 THEN NumNorm(neg, d \div 10, sc - 1)
    ELSE [t |-> "num", neg |-> neg, d |-> d, sc |-> sc]

IntVal(n) == IF n < 0 THEN NumNorm(TRUE, -n, 0) ELSE NumNorm(FALSE, n, 0)

\* dict lookup and dict[key] = v (a known key keeps its place)
HasKey(e, k) == \E i \in 1..Len(e) : e[i].k = k
KeyIndex(e, k) == CHOOSE i \in 1..Len(e) : e[i].k = k
DictGet(e, k) == e[KeyIndex(e, k)].v
DictSet(e, k, v) ==
    IF HasKey(e, k) THEN [e EXCEPT ![KeyIndex(e, k)] = Ent(k, v)] ELSE Append(e, Ent(k, v))
DictKeys(e) == [i \in 1..Len(e) |-> e[i].k]

\* Python's == on decoded values: dicts compare without regard to order
RECURSIVE ValEq(_, _)
ValEq(a, b) ==
    IF a.t # b.t THEN FALSE
    ELSE IF a.t = "arr"
        THEN Len(a.e) = Len(b.e) /\ \A i \in 1..Len(a.e) : ValEq(a.e[i], b.e[i])
    ELSE IF a.t = "obj"
        THEN /\ Len(a.e) = Len(b.e)
             /\ \A i \in 1..Len(a.e) :
                    HasKey(b.e, a.e[i].k) /\ ValEq(a.e[i].v, DictGet(b.e, a.e[i].k))
    ELSE a = b

----------------------------------------------------------------------------
(* string_utils.py *)

RECURSIVE escape_string(_)
escape_string(s) ==
    IF s = <<>> THEN <<>>
    ELSE LET c == Head(s) IN
         (IF c = BS THEN <<BS, BS>>
          ELSE IF c = QT THEN <<BS, QT>>
          ELSE IF c = LF THEN <<BS, "n">>
          ELSE IF c = CR THEN <<BS, "r">>
          ELSE IF c = TAB THEN <<BS, "t">>
          ELSE <<c>>) \o escape_string(Tail(s))

\* [err, s]: err is "SyntaxError" for a lone or unknown escape
RECURSIVE unescape_string(_)
unescape_string(s) ==
    IF s = <<>> THEN [err |-> "none", s |-> <<>>]
    ELSE IF Head(s) = BS THEN
        IF Len(s) < 2 THEN [err |-> "SyntaxError", s |-> <<>>]
        ELSE LET n == s[2]
                 u == IF n = BS THEN <<BS>>
                      ELSE IF n = QT THEN <<QT>>
                      ELSE IF n = "n" THEN <<LF>>
                      ELSE IF n = "r" THEN <<CR>>
                      ELSE IF n = "t" THEN <<TAB>>
                      ELSE <<>>
             IN IF u = <<>> THEN [err |-> "SyntaxError", s |-> <<>>]
                ELSE LET r == unescape_string(From(s, 2)) IN
                     IF r.err # "none" THEN r ELSE [err |-> "none", s |-> u \o r.s]
    ELSE LET r == unescape_string(Tail(s)) IN
         IF r.err # "none" THEN r ELSE [err |-> "none", s |-> <<Head(s)>> \o r.s]

RESERVED_LITERALS == {<<"t", "r", "u", "e">>, <<"f", "a", "l", "s", "e">>, <<"n", "u", "l", "l">>}
STRUCTURAL_CHARS == {":", "[", "]", "{", "}"}

\* digit ("_"? digit)* : the digit part of Python's int() and float() literals
RECURSIVE IsDigitPart(_)
IsDigitPart(s) ==
    /\ s # <<>>
    /\ isdigit(s[1])
    /\ \/ Len(s) = 1
       \/ s[2] = "_" /\ IsDigitPart(From(s, 2))
       \/ s[2] # "_" /\ IsDigitPart(Tail(s))

StripSign(s) == IF s # <<>> /\ s[1] \in {"+", "-"} THEN Tail(s) ELSE s

\* the text int() accepts (base 10)
IsIntText(s) == IsDigitPart(StripSign(strip(s)))

\* mantissa of a float literal: D, D., D.D or .D
IsMantissaParts(ip, fp) ==
    /\ (ip = <<>> \/ IsDigitPart(ip))
    /\ (fp = <<>> \/ IsDigitPart(fp))
    /\ ~(ip = <<>> /\ fp = <<>>)

IsMantissa(m) ==
    IF ~Contains(m, ".") THEN IsDigitPart(m)
    ELSE IsMantissaParts(Upto(m, IndexIn(".", m, 1) - 1), From(m, IndexIn(".", m, 1)))

\* p: the 1-based place of the exponent mark in u, 0 without one
IsDecimalAt(u, p) ==
    /\ IsMantissa(IF p = 0 THEN u ELSE Upto(u, p - 1))
    /\ p = 0 \/ IsDigitPart(StripSign(From(u, p)))

IsDecimalText(u) == IsDecimalAt(u, IndexIn("e", lower(u), 1))

\* the text float() accepts
IsUnsignedFloatText(u) ==
    \/ lower(u) \in {<<"i", "n", "f">>, <<"n", "a", "n">>,
                     <<"i", "n", "f", "i", "n", "i", "t", "y">>}
    \/ IsDecimalText(u)

IsFloatText(s) == IsUnsignedFloatText(StripSign(strip(s)))

RECURSIVE DigitsVal(_, _)
DigitsVal(s, acc) ==
    IF s = <<>> THEN acc
    ELSE IF Head(s) = "_" THEN DigitsVal(Tail(s), acc)
    ELSE DigitsVal(Tail(s), acc * 10 + DigitVal(Head(s)))

DigitCount(s) == Cardinality({i \in 1..Len(s) : s[i] # "_"})

\* value of a text float() accepts that is neither inf nor nan
DecimalValue(s) ==
    LET Value(neg, ip, fp, exv) == NumNorm(neg, DigitsVal(ip \o fp, 0), DigitCount(fp) - exv)
        PointAt(neg, m, exv, pd) ==
            Value(neg, IF pd = 0 THEN m ELSE Upto(m, pd - 1),
                  IF pd = 0 THEN <<>> ELSE From(m, pd), exv)
        Exponent(ex) ==
            (IF ex # <<>> /\ ex[1] = "-" THEN -1 ELSE 1) * DigitsVal(StripSign(ex), 0)
        Mantissa(neg, m, exv) == PointAt(neg, m, exv, IndexIn(".", m, 1))
        ExponentAt(neg, u, pe) ==
            Mantissa(neg, IF pe = 0 THEN u ELSE Upto(u, pe - 1),
                     IF pe = 0 THEN 0 ELSE Exponent(From(u, pe)))
        Unsigned(neg, u) == ExponentAt(neg, u, IndexIn("e", lower(u), 1))
        Stripped(t) == Unsigned(t # <<>> /\ t[1] = "-", StripSign(t))
    IN Stripped(strip(s))

_looks_like_number(v) ==
    IF v = <<>> THEN FALSE
    ELSE LET s == IF v[1] = "-" THEN Tail(v) ELSE v IN
         IF s = <<>> THEN FALSE
         ELSE IF Len(s) > 1 /\ s[1] = "0" /\ isdigit(s[2]) THEN FALSE
         ELSE IsFloatText(v)

is_safe_unquoted(v, delimiter) ==
    /\ v # <<>>
    /\ v = strip(v)
    /\ lower(v) \notin RESERVED_LITERALS
    /\ ~_looks_like_number(v)
    /\ \A i \in 1..Len(v) : v[i] \notin STRUCTURAL_CHARS
    /\ ~Contains(v, QT) /\ ~Contains(v, BS)
    /\ ~Contains(v, LF) /\ ~Contains(v, CR) /\ ~Contains(v, TAB)
    /\ ~Contains(v, delimiter)
    /\ v[1] # "-"

\* IDENTIFIER_SEGMENT_PATTERN.match: "$" also matches before a final line feed
IsIdentifierText(s) ==
    /\ s # <<>>
    /\ (isalpha(s[1]) \/ s[1] = "_")
    /\ \A i \in 2..Len(s) : isalpha(s[i]) \/ isdigit(s[i]) \/ s[i] = "_"

is_valid_identifier_segment(s) ==
    \/ IsIdentifierText(s)
    \/ s # <<>> /\ s[Len(s)] = LF /\ IsIdentifierText(Upto(s, Len(s) - 1))

\* 0-based index of the first colon outside double quotes, or -1
RECURSIVE find_unquoted_colon_from(_, _, _)
find_unquoted_colon_from(line, i, in_quotes) ==
    IF i >= Len(line) THEN -1
    ELSE LET c == line[i + 1] IN
         IF c = BS /\ in_quotes /\ i + 1 < Len(line)
            THEN find_unquoted_colon_from(line, i + 2, in_quotes)
         ELSE IF c = QT THEN find_unquoted_colon_from(line, i + 1, ~in_quotes)
         ELSE IF c = ":" /\ ~in_quotes THEN i
         ELSE find_unquoted_colon_from(line, i + 1, in_quotes)

find_unquoted_colon(line) == find_unquoted_colon_from(line, 0, FALSE)

RECURSIVE split_from(_, _, _, _, _)
split_from(v, delimiter, i, in_quotes, cur) ==
    IF i >= Len(v) THEN <<strip(cur)>>
    ELSE LET c == v[i + 1] IN
         IF c = BS /\ in_quotes /\ i + 1 < Len(v)
            THEN split_from(v, delimiter, i + 2, in_quotes, cur \o <<c, v[i + 2]>>)
         ELSE IF c = QT THEN split_from(v, delimiter, i + 1, ~in_quotes, Append(cur, c))
         ELSE IF c = delimiter /\ ~in_quotes
            THEN <<strip(cur)>> \o split_from(v, delimiter, i + 1, in_quotes, <<>>)
         ELSE split_from(v, delimiter, i + 1, in_quotes, Append(cur, c))

split_by_delimiter(v, delimiter) == split_from(v, delimiter, 0, FALSE, <<>>)

----------------------------------------------------------------------------
(* primitives.py *)

\* repr/str of a number, for magnitudes Python prints without an exponent
_encode_number(v) ==
    LET Fraction(fr) ==
            IF v.sc = 0 THEN <<>> ELSE <<".">> \o [i \in 1..(v.sc - Len(fr)) |-> "0"] \o fr
        Scaled(p) ==
            (IF v.neg THEN <<"-">> ELSE <<>>) \o NatStr(v.d \div p) \o Fraction(NatStr(v.d % p))
    IN Scaled(Pow10(v.sc))

encode_string_literal(s, delimiter) ==
    IF is_safe_unquoted(s, delimiter) THEN s ELSE <<QT>> \o escape_string(s) \o <<QT>>

encode_primitive(v, delimiter) ==
    IF v.t = "null" THEN <<"n", "u", "l", "l">>
    ELSE IF v.t = "bool"
        THEN (IF v.b THEN <<"t", "r", "u", "e">> ELSE <<"f", "a", "l", "s", "e">>)
    ELSE IF v.t = "num" THEN _encode_number(v)
    ELSE encode_string_literal(v.s, delimiter)

encode_key(key) ==
    IF key = <<>> THEN <<QT, QT>>
    ELSE IF Contains(key, SP) THEN <<QT>> \o escape_string(key) \o <<QT>>
    ELSE IF is_safe_unquoted(key, ",") THEN key
    ELSE <<QT>> \o escape_string(key) \o <<QT>>

\* 0-based index of the closing quote of the literal opened at s[start], or -1
RECURSIVE find_closing_quote_from(_, _)
find_closing_quote_from(s, i) ==
    IF i >= Len(s) THEN -1
    ELSE IF s[i + 1] = BS THEN find_closing_quote_from(s, i + 2)
    ELSE IF s[i + 1] = QT THEN i
    ELSE find_closing_quote_from(s, i + 1)

find_closing_quote(s, start) == find_closing_quote_from(s, start + 1)

\* [err, v]
parse_string_literal(token) ==
    LET Unescaped(u) ==
            IF u.err # "none" THEN [err |-> u.err, v |-> Null]
            ELSE [err |-> "none", v |-> Str(u.s)]
        ClosedAt(end) ==
            IF end = -1 THEN [err |-> "SyntaxError", v |-> Null]
            ELSE Unescaped(unescape_string(SubSeq(token, 2, end)))
    IN ClosedAt(find_closing_quote(token, 0))

\* [ok, v]: ok is FALSE where the code returns None
_try_parse_number(token) ==
    LET none == [ok |-> FALSE, v |-> Null]
        LeadingZero(clean) == Len(clean) > 1 /\ clean[1] = "0" /\ isdigit(clean[2])
        Parsed(accepted) == IF accepted THEN [ok |-> TRUE, v |-> DecimalValue(token)] ELSE none
    IN IF token = <<>> THEN none
       ELSE IF LeadingZero(lstripSet(token, {"-"})) THEN none
       ELSE Parsed(IF ~Contains(token, ".") /\ ~Contains(lower(token), "e")
                   THEN IsIntText(token)
                   ELSE IsDecimalText(StripSign(strip(token))))

\* [err, v]
parse_primitive(token) ==
    LET Number(n) ==
            IF n.ok THEN [err |-> "none", v |-> n.v] ELSE [err |-> "none", v |-> Str(token)]
    IN IF token = <<>> THEN [err |-> "none", v |-> Str(<<>>)]
       ELSE IF token[1] = QT THEN parse_string_literal(token)
       ELSE IF token = <<"n", "u", "l", "l">> THEN [err |-> "none", v |-> Null]
       ELSE IF token = <<"t", "r", "u", "e">> THEN [err |-> "none", v |-> Bool(TRUE)]
       ELSE IF token = <<"f", "a", "l", "s", "e">> THEN [err |-> "none", v |-> Bool(FALSE)]
       ELSE Number(_try_parse_number(token))

\* "[N]" or "[N<delimiter>]"
_format_bracket(length, delimiter) ==
    <<"[">> \o NatStr(length) \o (IF delimiter = "," THEN <<>> ELSE <<delimiter>>) \o <<"]">>

EncodeFields(fields) == [i \in 1..Len(fields) |-> encode_key(fields[i])]

\* key = <<>> stands for both None and the empty key: the code tests "if key"
format_array_header(length, key, fields, delimiter) ==
    (IF key # <<>> THEN encode_key(key) ELSE <<>>)
        \o _format_bracket(length, delimiter)
        \o (IF fields = <<>> THEN <<>>
            ELSE <<"{">> \o join(<<delimiter>>, EncodeFields(fields)) \o <<"}">>)
        \o <<":">>

----------------------------------------------------------------------------
(* encode.py *)

_is_primitive(v) == v.t \notin {"obj", "arr"}

_is_inline_primitive_array(arr) ==
    arr # <<>> /\ \A i \in 1..Len(arr) : _is_primitive(arr[i])

KeySet(e) == {e[i].k : i \in 1..Len(e)}

_is_tabular_array(arr) ==
    /\ arr # <<>>
    /\ \A i \in 1..Len(arr) : arr[i].t = "obj"
    /\ arr[1].e # <<>>
    /\ \A i \in 2..Len(arr) : KeySet(arr[i].e) = KeySet(arr[1].e)
    /\ \A i \in 1..Len(arr) : \A j \in 1..Len(arr[i].e) : _is_primitive(arr[i].e[j].v)

Indent(opts, depth) == Spaces(opts.indent * depth)

EncodeAll(vs, delimiter) == [i \in 1..Len(vs) |-> encode_primitive(vs[i], delimiter)]

\* row.get(f) is None for a missing field
RowGet(row, f) == IF HasKey(row.e, f) THEN DictGet(row.e, f) ELSE Null

_encode_tabular_row(row, fields, opts, depth) ==
    <<Indent(opts, depth)
        \o join(<<opts.delimiter>>,
                [i \in 1..Len(fields) |-> encode_primitive(RowGet(row, fields[i]), opts.delimiter)])>>

RECURSIVE EncodeRows(_, _, _, _)
EncodeRows(rows, fields, opts, depth) ==
    IF rows = <<>> THEN <<>>
    ELSE _encode_tabular_row(rows[1], fields, opts, depth)
             \o EncodeRows(Tail(rows), fields, opts, depth)

_format_array_header_with_key(length, key, fields, delimiter) ==
    key \o _format_bracket(length, delimiter)
        \o (IF fields = <<>> THEN <<>>
            ELSE <<"{">> \o join(<<delimiter>>, EncodeFields(fields)) \o <<"}">>)
        \o <<":">>

_can_fold_key(key, v, sibling_keys, opts, depth) ==
    /\ is_valid_identifier_segment(key)
    /\ v.t = "obj" /\ Len(v.e) = 1
    /\ is_valid_identifier_segment(v.e[1].k)
    /\ \A s \in sibling_keys : ~(startswith(s, key \o <<".">>) \/ s = key)

\* the while loop of _encode_folded: [path, current]
RECURSIVE FoldWalk(_, _, _)
FoldWalk(path, current, opts) ==
    IF /\ current.t = "obj"
       /\ Len(current.e) = 1
       /\ (opts.flatten_none \/ Len(path) <= opts.flatten_depth)
       /\ is_valid_identifier_segment(current.e[1].k)
    THEN FoldWalk(Append(path, current.e[1].k), current.e[1].v, opts)
    ELSE [path |-> path, current |-> current]

RECURSIVE _encode_object_lines(_, _, _, _)
RECURSIVE _encode_array(_, _, _, _)
RECURSIVE _encode_list_item(_, _, _)
RECURSIVE _encode_object_list_item(_, _, _)
RECURSIVE _encode_list_item_array_first(_, _, _, _)
RECURSIVE _encode_tabular_first_list_item(_, _, _)
RECURSIVE _encode_folded(_, _, _, _, _)
RECURSIVE _encode_array_with_key(_, _, _, _)
RECURSIVE EncodeItems(_, _, _)
RECURSIVE EncodeEntries(_, _, _, _, _)
RECURSIVE EncodeRemaining(_, _, _)

\* for item in arr: yield from _encode_list_item(item, opts, depth)
EncodeItems(arr, opts, depth) ==
    IF arr = <<>> THEN <<>>
    ELSE _encode_list_item(arr[1], opts, depth) \o EncodeItems(Tail(arr), opts, depth)

\* the body of the for loop of _encode_object_lines, entries i..
EncodeEntries(e, i, opts, depth, sibling_keys) ==
    IF i > Len(e) THEN <<>>
    ELSE LET key == e[i].k
             v == e[i].v
             \* "key:" before a nested object, "key: value" for a primitive
             Line(encoded_key) ==
                 <<Indent(opts, depth) \o encoded_key
                       \o (IF v.t = "obj" THEN <<":">>
                           ELSE <<":", SP>> \o encode_primitive(v, opts.delimiter))>>
         IN (IF opts.key_folding = "safe" /\ _can_fold_key(key, v, sibling_keys, opts, depth)
                 THEN _encode_folded(key, v, opts, depth, sibling_keys)
             ELSE IF v.t = "arr" THEN _encode_array(key, v.e, opts, depth)
             ELSE Line(encode_key(key))
                      \o (IF v.t = "obj" /\ v.e # <<>>
                          THEN _encode_object_lines(v, opts, depth + 1, {})
                          ELSE <<>>))
                \o EncodeEntries(e, i + 1, opts, depth, sibling_keys)

_encode_object_lines(obj, opts, depth, sibling_keys) ==
    EncodeEntries(obj.e, 1, opts, depth, sibling_keys)

_encode_array(key, arr, opts, depth) ==
    LET tabular == _is_tabular_array(arr)
        inline == _is_inline_primitive_array(arr)
        Header(encoded_key) ==
            IF arr = <<>> THEN encoded_key \o _format_bracket(0, opts.delimiter) \o <<":">>
            ELSE IF inline THEN
                encoded_key \o _format_bracket(Len(arr), opts.delimiter) \o <<":", SP>>
                    \o join(<<opts.delimiter>>, EncodeAll(arr, opts.delimiter))
            ELSE IF tabular THEN
                format_array_header(Len(arr), key, DictKeys(arr[1].e), opts.delimiter)
            ELSE encoded_key \o _format_bracket(Len(arr), opts.delimiter) \o <<":">>
    IN <<Indent(opts, depth) \o Header(encode_key(key))>>
           \o (IF arr = <<>> \/ inline THEN <<>>
               ELSE IF tabular THEN EncodeRows(arr, DictKeys(arr[1].e), opts, depth + 1)
               ELSE EncodeItems(arr, opts, depth + 1))

_encode_list_item(item, opts, depth) ==
    LET indent == Indent(opts, depth) IN
    IF item.t = "obj" THEN
        IF item.e = <<>> THEN <<indent \o <<"-">>>>
        ELSE IF item.e[1].v.t = "arr" /\ _is_tabular_array(item.e[1].v.e)
            THEN _encode_tabular_first_list_item(item, opts, depth)
        ELSE _encode_object_list_item(item, opts, depth)
    ELSE IF item.t = "arr" THEN
        IF _is_inline_primitive_array(item.e) THEN
            <<indent \o <<"-", SP, "[">> \o NatStr(Len(item.e)) \o <<"]", ":", SP>>
                  \o join(<<opts.delimiter>>, EncodeAll(item.e, opts.delimiter))>>
        ELSE <<indent \o <<"-", SP, "[">> \o NatStr(Len(item.e)) \o <<"]", ":">>>>
                 \o EncodeItems(item.e, opts, depth + 1)
    ELSE <<indent \o <<"-", SP>> \o encode_primitive(item, opts.delimiter)>>

\* the "remaining fields" loops of the list-item encoders, over entries e
EncodeRemaining(e, opts, depth) ==
    IF e = <<>> THEN <<>>
    ELSE LET key == e[1].k
             v == e[1].v
             Line(encoded_key) ==
                 <<Indent(opts, depth + 1) \o encoded_key
                       \o (IF v.t = "obj" THEN <<":">>
                           ELSE <<":", SP>> \o encode_primitive(v, opts.delimiter))>>
         IN (IF v.t = "arr" THEN _encode_array(key, v.e, opts, depth + 1)
             ELSE Line(encode_key(key))
                      \o (IF v.t = "obj" /\ v.e # <<>>
                          THEN _encode_object_lines(v, opts, depth + 2, {})
                          ELSE <<>>))
                \o EncodeRemaining(Tail(e), opts, depth)

_encode_object_list_item(obj, opts, depth) ==
    LET first_key == obj.e[1].k
        first == obj.e[1].v
        Line(encoded_key) ==
            <<Indent(opts, depth) \o <<"-", SP>> \o encoded_key
                  \o (IF first.t = "obj" THEN <<":">>
                      ELSE <<":", SP>> \o encode_primitive(first, opts.delimiter))>>
    IN (IF first.t = "arr"
            THEN _encode_list_item_array_first(first_key, first.e, opts, depth)
        ELSE Line(encode_key(first_key))
                 \o (IF first.t = "obj" /\ first.e # <<>>
                     THEN _encode_object_lines(first, opts, depth + 2, {})
                     ELSE <<>>))
           \o EncodeRemaining(Tail(obj.e), opts, depth)

_encode_list_item_array_first(key, arr, opts, depth) ==
    LET tabular == _is_tabular_array(arr)
        inline == _is_inline_primitive_array(arr)
        Header(encoded_key) ==
            IF arr = <<>> THEN encoded_key \o <<"[", "0", "]", ":">>
            ELSE IF inline THEN
                encoded_key \o <<"[">> \o NatStr(Len(arr)) \o <<"]", ":", SP>>
                    \o join(<<opts.delimiter>>, EncodeAll(arr, opts.delimiter))
            ELSE IF tabular THEN
                format_array_header(Len(arr), key, DictKeys(arr[1].e), opts.delimiter)
            ELSE encoded_key \o <<"[">> \o NatStr(Len(arr)) \o <<"]", ":">>
    IN <<Indent(opts, depth) \o <<"-", SP>> \o Header(encode_key(key))>>
           \o (IF arr = <<>> \/ inline THEN <<>>
               ELSE IF tabular THEN EncodeRows(arr, DictKeys(arr[1].e), opts, depth + 2)
               ELSE EncodeItems(arr, opts, depth + 2))

_encode_tabular_first_list_item(obj, opts, depth) ==
    LET indent == Indent(opts, depth)
        first_key == obj.e[1].k
        first_arr == obj.e[1].v.e
        fields == DictKeys(first_arr[1].e)
    IN <<indent \o <<"-", SP>>
             \o format_array_header(Len(first_arr), first_key, fields, opts.delimiter)>>
           \o EncodeRows(first_arr, fields, opts, depth + 2)
           \o EncodeRemaining(Tail(obj.e), opts, depth)

_encode_array_with_key(key, arr, opts, depth) ==
    LET indent == Indent(opts, depth) IN
    IF arr = <<>> THEN <<indent \o key \o _format_bracket(0, opts.delimiter) \o <<":">>>>
    ELSE IF _is_inline_primitive_array(arr) THEN
        <<indent \o key \o _format_bracket(Len(arr), opts.delimiter) \o <<":", SP>>
              \o join(<<opts.delimiter>>, EncodeAll(arr, opts.delimiter))>>
    ELSE IF _is_tabular_array(arr) THEN
        <<indent \o _format_array_header_with_key(Len(arr), key, DictKeys(arr[1].e),
                                                  opts.delimiter)>>
            \o EncodeRows(arr, DictKeys(arr[1].e), opts, depth + 1)
    ELSE <<indent \o key \o _format_bracket(Len(arr), opts.delimiter) \o <<":">>>>
             \o EncodeItems(arr, opts, depth + 1)

_encode_folded(key, v, opts, depth, sibling_keys) ==
    LET indent == Indent(opts, depth)
        w == FoldWalk(<<key>>, v, opts)
        folded_key == join(<<".">>, w.path)
        current == w.current
    IN IF current.t = "obj" THEN
           (IF current.e = <<>> THEN <<indent \o folded_key \o <<":">>>>
            ELSE <<indent \o folded_key \o <<":">>>>
                     \o _encode_object_lines(current, opts, depth + 1, {}))
       ELSE IF current.t = "arr" THEN _encode_array_with_key(folded_key, current.e, opts, depth)
       ELSE <<indent \o folded_key \o <<":", SP>> \o encode_primitive(current, opts.delimiter)>>

_encode_root_array(arr, opts) ==
    IF _is_inline_primitive_array(arr) THEN
        <<_format_bracket(Len(arr), opts.delimiter) \o <<":", SP>>
              \o join(<<opts.delimiter>>, EncodeAll(arr, opts.delimiter))>>
    ELSE IF _is_tabular_array(arr) THEN
        <<format_array_header(Len(arr), <<>>, DictKeys(arr[1].e), opts.delimiter)>>
            \o EncodeRows(arr, DictKeys(arr[1].e), opts, 1)
    ELSE <<_format_bracket(Len(arr), opts.delimiter) \o <<":">>>> \o EncodeItems(arr, opts, 1)

\* the lines encode_lines yields for a JSON value
encode_lines(v, opts) ==
    IF v.t = "obj" THEN _encode_object_lines(v, opts, 0, {})
    ELSE IF v.t = "arr" THEN _encode_root_array(v.e, opts)
    ELSE <<encode_primitive(v, opts.delimiter)>>

\* the text encode returns
encode(v, opts) == join(<<LF>>, encode_lines(v, opts))

DefaultEncodeOptions ==
    [indent |-> 2, delimiter |-> ",", key_folding |-> "none",
     flatten_none |-> TRUE, flatten_depth |-> 0]

----------------------------------------------------------------------------
(* decode.py: scanning, cursor, the array header pattern *)

\* the character U+0000 of QUOTED_KEY_MARKER
NUL == "NUL"
QUOTED_KEY_MARKER == <<NUL, "Q", "U", "O", "T", "E", "D", NUL>>

removeprefix(s, p) == IF startswith(s, p) THEN From(s, Len(p)) ELSE s

\* one ParsedLine
ParsedLine(raw, indent_size) ==
    LET Line(stripped, indent) ==
            [raw |-> raw, content |-> rstrip(stripped), indent |-> indent,
             depth |-> indent \div indent_size]
        Stripped(stripped) == Line(stripped, Len(raw) - Len(stripped))
    IN Stripped(lstripSet(raw, {SP}))

\* [err, L]: the list of ParsedLine, or the SyntaxError of strict scanning
_parse_lines(ls, indent_size, strict) ==
    LET Bad(raw, indent) ==
            \/ strict /\ Contains(Upto(raw, indent), TAB)
            \/ strict /\ indent % indent_size # 0
    IN IF \E i \in 1..Len(ls) : Bad(ls[i], Len(ls[i]) - Len(lstripSet(ls[i], {SP})))
       THEN [err |-> "SyntaxError", L |-> <<>>]
       ELSE [err |-> "none", L |-> [i \in 1..Len(ls) |-> ParsedLine(ls[i], indent_size)]]

\* _Cursor.peek: the position of the next non-blank line (Len(L) when none)
RECURSIVE peek(_, _)
peek(L, pos) ==
    IF pos < Len(L) /\ L[pos + 1].content = <<>> THEN peek(L, pos + 1) ELSE pos

\* the lookahead C18 rules out: a deeper line taken for one at the depth
peek_at_depth_or_deeper(L, p, depth) == p < Len(L) /\ L[p + 1].depth >= depth

\* _Cursor.peek_at_depth, for a position peek returned
peek_at_depth(L, p, depth) == p < Len(L) /\ L[p + 1].depth = depth

KeyRunChars == {":", "[", "]", "{", "}", QT}

\* number of characters from 0-based i on that are in (not in) cs
RECURSIVE RunOf(_, _, _, _)
RunOf(s, i, cs, inside) ==
    IF i < Len(s) /\ ((s[i + 1] \in cs) = inside) THEN 1 + RunOf(s, i + 1, cs, inside) ELSE 0

\* end (0-based, exclusive) of the quoted key "(?:[^"\\]|\\.)*" opened at s[0], or -1
RECURSIVE QuotedKeyEnd(_, _)
QuotedKeyEnd(s, i) ==
    IF i >= Len(s) THEN -1
    ELSE IF s[i + 1] = QT THEN i + 1
    ELSE IF s[i + 1] = BS
        THEN (IF i + 1 < Len(s) /\ s[i + 2] # LF THEN QuotedKeyEnd(s, i + 2) ELSE -1)
    ELSE QuotedKeyEnd(s, i + 1)

NoMatch == [ok |-> FALSE, key |-> <<>>, length |-> 0, delim |-> "", fields |-> <<>>,
            rest |-> <<>>]

\* ARRAY_HEADER_PATTERN matched from 0-based k on, after a key ending at k
HeaderAfterKey(s, k) ==
    LET \* a: after the digits; b: at "]"; c: after "]"; d: at ":"
        Match(nd, a, hasdelim, b, c, nf, hasfields, d) ==
            IF /\ k < Len(s) /\ s[k + 1] = "["
               /\ nd >= 1
               /\ b < Len(s) /\ s[b + 1] = "]"
               /\ d < Len(s) /\ s[d + 1] = ":"
               /\ ~Contains(From(s, d + 1), LF)
            THEN [ok |-> TRUE, key |-> Upto(s, k),
                  length |-> DigitsVal(SubSeq(s, k + 2, a), 0),
                  delim |-> IF hasdelim THEN s[a + 1] ELSE "",
                  fields |-> IF hasfields THEN SubSeq(s, c + 2, c + 1 + nf) ELSE <<>>,
                  rest |-> From(s, d + 1)]
            ELSE NoMatch
        Colon(nd, a, hasdelim, b, c, nf, hasfields) ==
            Match(nd, a, hasdelim, b, c, nf, hasfields,
                  IF hasfields THEN c + 1 + nf + 1 ELSE c)
        Fields(nd, a, hasdelim, b, c, nf) ==
            Colon(nd, a, hasdelim, b, c, nf,
                  c < Len(s) /\ s[c + 1] = "{" /\ c + 1 + nf < Len(s))
        Closing(nd, a, hasdelim, b) ==
            Fields(nd, a, hasdelim, b, b + 1, RunOf(s, b + 2, {"}"}, FALSE))
        Delim(nd, a, hasdelim) == Closing(nd, a, hasdelim, IF hasdelim THEN a + 1 ELSE a)
        Digits(nd) == Delim(nd, k + 1 + nd, k + 1 + nd < Len(s) /\ s[k + 2 + nd] \in {",", TAB, "|"})
    IN Digits(RunOf(s, k + 1, DigitChars, TRUE))

\* the first key end in ks after which the rest of the pattern matches
RECURSIVE FirstHeader(_, _)
FirstHeader(s, ks) ==
    LET Tried(r) == IF r.ok \/ Len(ks) = 1 THEN r ELSE FirstHeader(s, Tail(ks))
    IN Tried(HeaderAfterKey(s, Head(ks)))

\* ARRAY_HEADER_PATTERN.match(content); fields is <<>> for a missing or empty group
ARRAY_HEADER_PATTERN(s) ==
    LET \* the key group: a run of plain characters, else a quoted key, else empty
        Keys(run, q) == IF run > 0 THEN <<run>> ELSE IF q >= 0 THEN <<q, 0>> ELSE <<0>>
    IN FirstHeader(s, Keys(RunOf(s, 0, KeyRunChars, FALSE),
                           IF s # <<>> /\ s[1] = QT THEN QuotedKeyEnd(s, 1) ELSE -1))

\* [err, k]
_parse_key(key0, mark_quoted) ==
    LET Unescaped(u) ==
            IF u.err # "none" THEN [err |-> u.err, k |-> <<>>]
            ELSE [err |-> "none", k |-> IF mark_quoted THEN QUOTED_KEY_MARKER \o u.s ELSE u.s]
        Stripped(key) ==
            IF key = <<>> THEN [err |-> "none", k |-> <<>>]
            ELSE IF key[1] = QT /\ key[Len(key)] = QT
                THEN Unescaped(unescape_string(SubSeq(key, 2, Len(key) - 1)))
            ELSE [err |-> "none", k |-> key]
    IN Stripped(strip(key0))

\* [err, length, delimiter, fields]: the ArrayHeaderInfo of a match
_parse_array_header_from_match(m, default_delimiter) ==
    LET Header(delimiter, keys) ==
            IF \E i \in 1..Len(keys) : keys[i].err # "none"
            THEN [err |-> "SyntaxError", length |-> m.length, delimiter |-> delimiter,
                  fields |-> <<>>]
            ELSE [err |-> "none", length |-> m.length, delimiter |-> delimiter,
                  fields |-> [i \in 1..Len(keys) |-> keys[i].k]]
        Fields(delimiter, parts) ==
            Header(delimiter, [i \in 1..Len(parts) |-> _parse_key(strip(parts[i]), FALSE)])
        Delimited(delimiter) ==
            Fields(delimiter, IF m.fields = <<>> THEN <<>>
                              ELSE split_by_delimiter(m.fields, delimiter))
    IN Delimited(IF m.delim # "" THEN m.delim ELSE default_delimiter)

\* [err, v]; the decoder C4 rules out: the parsed tokens cut to the declared length
_decode_inline_values_truncating(values_str, header, options) ==
    LET Parsed(rs, m) ==
            IF \E i \in 1..Len(rs) : rs[i].err # "none" THEN [err |-> "SyntaxError", v |-> Null]
            ELSE IF options.strict /\ Len(rs) # header.length
                THEN [err |-> "ValueError", v |-> Null]
            ELSE [err |-> "none", v |-> Arr([i \in 1..m |-> rs[i].v])]
        Split(values) ==
            Parsed([i \in 1..Len(values) |-> parse_primitive(values[i])],
                   IF Len(values) < header.length THEN Len(values) ELSE header.length)
    IN IF values_str = <<>> THEN [err |-> "none", v |-> Arr(<<>>)]
       ELSE Split(split_by_delimiter(values_str, header.delimiter))

\* [err, v]
_decode_inline_values(values_str, header, options) ==
    LET Parsed(rs) ==
            IF \E i \in 1..Len(rs) : rs[i].err # "none" THEN [err |-> "SyntaxError", v |-> Null]
            ELSE IF options.strict /\ Len(rs) # header.length
                THEN [err |-> "ValueError", v |-> Null]
            ELSE [err |-> "none", v |-> Arr([i \in 1..Len(rs) |-> rs[i].v])]
        Split(values) == Parsed([i \in 1..Len(values) |-> parse_primitive(values[i])])
    IN IF values_str = <<>> THEN
           (IF options.strict /\ header.length > 0 THEN [err |-> "ValueError", v |-> Null]
            ELSE [err |-> "none", v |-> Arr(<<>>)])
       ELSE Split(split_by_delimiter(values_str, header.delimiter))

----------------------------------------------------------------------------
(* decode.py: multi-line scalars *)

\* a sibling or parent key as the implicit-multiline heuristic recognises it
LooksLikeKey(content) ==
    LET KeyPart(key_part) ==
            /\ key_part # <<>>
            /\ key_part[1] # "#"
            /\ \/ key_part[1] = QT
               \/ (isalpha(key_part[1]) \/ key_part[1] = "_") /\ ~Contains(key_part, SP)
        ColonAt(colon_pos) == colon_pos > 0 /\ KeyPart(strip(Upto(content, colon_pos)))
    IN ColonAt(find_unquoted_colon(content))

\* the first-line test of _collect_implicit_multiline: TRUE when it bails out
ImplicitBailsOut(content) ==
    \/ startswith(content, <<"-", SP>>) \/ content = <<"-">>
    \/ startswith(content, <<"[">>) /\ Contains(content, "]")
    \/ LooksLikeKey(content)

\* the capture loop of _collect_implicit_multiline: [ls, pos]
RECURSIVE ImplicitLoop(_, _, _, _)
ImplicitLoop(L, pos, parent_depth, ls) ==
    IF pos >= Len(L) THEN [ls |-> ls, pos |-> pos]
    ELSE LET line == L[pos + 1] IN
         IF line.content = <<>> THEN ImplicitLoop(L, pos + 1, parent_depth, Append(ls, <<>>))
         ELSE IF /\ line.depth <= parent_depth
                 /\ \/ LooksLikeKey(line.content)
                    \/ startswith(line.content, <<"[">>) /\ HasSub(line.content, <<"]", ":">>)
             THEN [ls |-> ls, pos |-> pos]
         ELSE ImplicitLoop(L, pos + 1, parent_depth,
                           Append(ls, rstripSet(line.raw, {CR, LF})))

RECURSIVE DropTrailingBlank(_)
DropTrailingBlank(ls) ==
    IF ls # <<>> /\ strip(ls[Len(ls)]) = <<>> THEN DropTrailingBlank(SubSeq(ls, 1, Len(ls) - 1))
    ELSE ls

\* [found, text, pos]: found is FALSE where the code returns None
_collect_implicit_multiline(L, pos, parent_depth) ==
    LET none == [found |-> FALSE, text |-> <<>>, pos |-> pos]
        Kept(kept, end) ==
            IF kept = <<>> THEN none
            ELSE [found |-> TRUE, text |-> join(<<LF>>, kept), pos |-> end]
        Collected(r) ==
            IF r.ls = <<>> \/ (\A i \in 1..Len(r.ls) : r.ls[i] = <<>>) THEN none
            ELSE Kept(DropTrailingBlank(r.ls), r.pos)
        FirstAt(peek_pos) ==
            IF peek_pos >= Len(L) THEN none
            ELSE IF ImplicitBailsOut(L[peek_pos + 1].content) THEN none
            ELSE Collected(ImplicitLoop(L, pos, parent_depth, <<>>))
    IN FirstAt(peek(L, pos))

\* the capture loop of _decode_block_scalar: [ls, pos]; block_indent -1 is None
RECURSIVE BlockLoop(_, _, _, _, _)
BlockLoop(L, pos, min_indent, block_indent, ls) ==
    LET Captured(raw, bi) ==
            BlockLoop(L, pos + 1, min_indent, bi, Append(ls, rstripSet(From(raw, bi), {CR, LF})))
        Line(raw, current_indent, is_blank) ==
            IF is_blank THEN BlockLoop(L, pos + 1, min_indent, block_indent, Append(ls, <<>>))
            ELSE IF block_indent = -1 /\ current_indent < min_indent
                THEN [ls |-> ls, pos |-> pos]
            ELSE IF block_indent # -1 /\ current_indent < block_indent
                THEN [ls |-> ls, pos |-> pos]
            ELSE Captured(raw, IF block_indent = -1 THEN current_indent ELSE block_indent)
        Stripped(raw, stripped) == Line(raw, Len(raw) - Len(stripped), strip(stripped) = <<>>)
    IN IF pos >= Len(L) THEN [ls |-> ls, pos |-> pos]
       ELSE Stripped(L[pos + 1].raw, lstripSet(L[pos + 1].raw, {SP}))

RECURSIVE ChompStrip(_)
ChompStrip(ls) ==
    IF ls # <<>> /\ ls[Len(ls)] = <<>> THEN ChompStrip(SubSeq(ls, 1, Len(ls) - 1)) ELSE ls

\* the chomping C7 rules out: clip that keeps every trailing empty line
ChompClip_keeping(ls) == ls

RECURSIVE ChompClip(_)
ChompClip(ls) ==
    IF Len(ls) > 1 /\ ls[Len(ls)] = <<>> THEN ChompClip(SubSeq(ls, 1, Len(ls) - 1)) ELSE ls

\* the folded-style paragraphs: result_parts
RECURSIVE FoldParts(_, _)
FoldParts(ls, current_paragraph) ==
    IF ls = <<>> THEN
        (IF current_paragraph # <<>> THEN <<join(<<SP>>, current_paragraph)>> ELSE <<>>)
    ELSE IF ls[1] = <<>> THEN
        (IF current_paragraph # <<>> THEN <<join(<<SP>>, current_paragraph)>> ELSE <<>>)
            \o <<(<<>>)>> \o FoldParts(Tail(ls), <<>>)
    ELSE FoldParts(Tail(ls), Append(current_paragraph, ls[1]))

\* lines 477-516 of _decode_block_scalar: chomping, joining, trailing break
BlockResult(content_lines, indicator) ==
    LET Chomping(last) == IF last = "-" THEN "strip" ELSE IF last = "+" THEN "keep" ELSE "clip"
        Joined(res, chomping) ==
            IF res # <<>> /\ chomping \in {"clip", "keep"} THEN res \o <<LF>> ELSE res
        Chomped(ls, chomping) ==
            Joined(join(<<LF>>, IF indicator[1] = "|" THEN ls ELSE FoldParts(ls, <<>>)), chomping)
        Style(chomping) ==
            Chomped(IF chomping = "strip" THEN ChompStrip(content_lines)
                    ELSE IF chomping = "clip" THEN ChompClip(content_lines)
                    ELSE content_lines, chomping)
    IN Style(Chomping(indicator[Len(indicator)]))

\* the decoder C24 rules out: the parent's own indentation is enough for content
_decode_block_scalar_shallow(L, indent_size, pos, depth, indicator) ==
    LET Captured(r) == [v |-> Str(BlockResult(r.ls, indicator)), pos |-> r.pos]
    IN Captured(BlockLoop(L, pos, depth * indent_size, -1, <<>>))

\* [v, pos]
_decode_block_scalar(L, indent_size, pos, depth, indicator) ==
    LET Captured(r) == [v |-> Str(BlockResult(r.ls, indicator)), pos |-> r.pos]
    IN Captured(BlockLoop(L, pos, (depth + 1) * indent_size, -1, <<>>))

BlockIndicators == {<<"|">>, <<">">>, <<"|", "-">>, <<">", "-">>, <<"|", "+">>, <<">", "+">>}

----------------------------------------------------------------------------
(* decode.py: the recursive descent.  cx = [L, opts] is the cursor's fixed   *)
(* part, pos its position; every decoder returns the position it leaves.     *)

Fail(err, pos) == [err |-> err, v |-> Null, pos |-> pos]
Done(v, pos) == [err |-> "none", v |-> v, pos |-> pos]
FailKV(err, pos) == [err |-> err, k |-> <<>>, v |-> Null, pos |-> pos]

RECURSIVE _decode_object(_, _, _)
RECURSIVE ObjectLoop(_, _, _, _)
RECURSIVE _decode_key_value(_, _, _, _)
RECURSIVE _decode_list_items(_, _, _, _)
RECURSIVE ListLoop(_, _, _, _, _)
RECURSIVE _decode_list_item(_, _, _, _)
RECURSIVE _decode_list_item_array(_, _, _, _)
RECURSIVE _decode_list_item_object(_, _, _, _, _)
RECURSIVE DecodeArrayBody(_, _, _, _, _, _)
RECURSIVE NestedOrEmpty(_, _, _, _)
RECURSIVE KeyedArray(_, _, _, _, _, _)
RECURSIVE KeyedValue(_, _, _, _, _)
RECURSIVE FirstField(_, _, _, _, _)

\* the row C5 rules out: a short row filled up with its last cell
PadOrTruncate_repeating(values, nf) ==
    [i \in 1..nf |-> IF i <= Len(values) THEN values[i] ELSE values[Len(values)]]

\* "Pad or truncate" in _decode_tabular_rows
PadOrTruncate(values, nf) ==
    [i \in 1..nf |-> IF i <= Len(values) THEN values[i] ELSE <<>>]

\* the while loop of _decode_tabular_rows
RECURSIVE TabularLoop(_, _, _, _, _)
TabularLoop(cx, pos, header, depth, res) ==
    LET nf == Len(header.fields)
        p == peek(cx.L, pos)
        RECURSIVE Row(_, _, _)
        Row(cells, i, row) ==
            IF i > nf THEN row
            ELSE Row(cells, i + 1, DictSet(row, header.fields[i], cells[i].v))
        Cells(values, cells) ==
            IF Len(values) # nf /\ cx.opts.strict THEN Fail("ValueError", p + 1)
            ELSE IF \E i \in 1..nf : cells[i].err # "none" THEN Fail("SyntaxError", p + 1)
            ELSE TabularLoop(cx, p + 1, header, depth, Append(res, Obj(Row(cells, 1, <<>>))))
        Stop(q) ==
            IF cx.opts.strict /\ Len(res) # header.length THEN Fail("ValueError", q)
            ELSE Done(Arr(res), q)
    IN IF Len(res) < header.length /\ peek_at_depth(cx.L, p, depth)
       THEN Cells(split_by_delimiter(cx.L[p + 1].content, header.delimiter),
                  [i \in 1..nf |->
                      parse_primitive(PadOrTruncate(split_by_delimiter(cx.L[p + 1].content,
                                                                       header.delimiter), nf)[i])])
       ELSE Stop(IF Len(res) < header.length THEN p ELSE pos)

\* the decoder C11 rules out: rows validated whether strict is asked for or not
_decode_tabular_rows_strict(cx, pos, header, depth) ==
    TabularLoop([cx EXCEPT !.opts.strict = TRUE], pos, header, depth, <<>>)

_decode_tabular_rows(cx, pos, header, depth) == TabularLoop(cx, pos, header, depth, <<>>)

\* the three array forms after a matched header, rows and items at depth;
\* as_list is the code's test for items on the following lines
DecodeArrayBody(cx, pos, header, rest, as_list, depth) ==
    LET Inline(r) == IF r.err # "none" THEN Fail(r.err, pos) ELSE Done(r.v, pos)
    IN IF header.fields # <<>> THEN _decode_tabular_rows(cx, pos, header, depth)
       ELSE IF as_list THEN _decode_list_items(cx, pos, header.length, depth)
       ELSE Inline(_decode_inline_values(rest, header, cx.opts))

ObjectLoop(cx, pos, depth, res) ==
    LET p == peek(cx.L, pos)
        Pair(kv) ==
            IF kv.err # "none" THEN Fail(kv.err, kv.pos)
            ELSE ObjectLoop(cx, kv.pos, depth, DictSet(res, kv.k, kv.v))
    IN IF peek_at_depth(cx.L, p, depth)
       THEN Pair(_decode_key_value(cx.L[p + 1], cx, p + 1, depth))
       ELSE Done(Obj(res), p)

\* the decoder C19 rules out: every object read at depth 0, wherever it is
_decode_object_shallow(cx, pos, depth) == ObjectLoop(cx, pos, 0, <<>>)

_decode_object(cx, pos, depth) == ObjectLoop(cx, pos, depth, <<>>)

\* [err, k, v, pos]; pos is the cursor after the line was taken
Keyed(k, r) == [err |-> r.err, k |-> k, v |-> r.v, pos |-> r.pos]

\* key[N]...: an array in one of its three forms
KeyedArray(cx, pos, depth, key, header, rest) ==
    IF key.err # "none" THEN FailKV(key.err, pos)
    ELSE IF header.err # "none" THEN FailKV(header.err, pos)
    ELSE Keyed(key.k, DecodeArrayBody(cx, pos, header, rest, rest = <<>>, depth + 1))

\* key: value, a block scalar, a multi-line string, a nested object or {}
KeyedValue(cx, pos, depth, key, value_part) ==
    LET Scalar(r) == [err |-> r.err, v |-> r.v, pos |-> pos]
        Implicit(c, r) ==
            IF c.found THEN Done(Str(value_part \o <<LF>> \o c.text), c.pos) ELSE Scalar(r)
        Block(b) == Done(b.v, b.pos)
    IN IF key.err # "none" THEN FailKV(key.err, pos)
       ELSE Keyed(key.k,
                  IF value_part = <<>> THEN NestedOrEmpty(cx, peek(cx.L, pos), depth, depth + 1)
                  ELSE IF value_part \in BlockIndicators
                      THEN Block(_decode_block_scalar(cx.L, cx.opts.indent, pos, depth, value_part))
                  ELSE Implicit(_collect_implicit_multiline(cx.L, pos, depth),
                                parse_primitive(value_part)))

_decode_key_value(line, cx, pos, depth) ==
    LET m == ARRAY_HEADER_PATTERN(line.content)
        colon_pos == find_unquoted_colon(line.content)
    IN IF m.ok
       THEN KeyedArray(cx, pos, depth, _parse_key(m.key, cx.opts.expand_paths),
                       _parse_array_header_from_match(m, ","), strip(m.rest))
       ELSE IF colon_pos = -1 THEN FailKV("SyntaxError", pos)
       ELSE KeyedValue(cx, pos, depth,
                       _parse_key(strip(Upto(line.content, colon_pos)), cx.opts.expand_paths),
                       strip(From(line.content, colon_pos + 1)))

ListLoop(cx, pos, expected_length, depth, res) ==
    LET p == peek(cx.L, pos)
        Item(item) ==
            IF item.err # "none" THEN Fail(item.err, item.pos)
            ELSE ListLoop(cx, item.pos, expected_length, depth, Append(res, item.v))
        Stop(q) ==
            IF cx.opts.strict /\ Len(res) # expected_length THEN Fail("ValueError", q)
            ELSE Done(Arr(res), q)
    IN IF /\ Len(res) < expected_length
          /\ peek_at_depth(cx.L, p, depth)
          /\ \/ startswith(cx.L[p + 1].content, <<"-", SP>>)
             \/ cx.L[p + 1].content = <<"-">>
       THEN Item(_decode_list_item(cx.L[p + 1], cx, p + 1, depth))
       ELSE Stop(IF Len(res) < expected_length THEN p ELSE pos)

\* the decoder C6 rules out: one item taken beyond the declared length
_decode_list_items_greedy(cx, pos, expected_length, depth) ==
    ListLoop(cx, pos, expected_length + 1, depth, <<>>)

_decode_list_items(cx, pos, expected_length, depth) ==
    ListLoop(cx, pos, expected_length, depth, <<>>)

\* the "more fields at depth + 1" loops of the list-item decoders
RECURSIVE MoreFields(_, _, _, _)
MoreFields(cx, pos, depth, res) ==
    LET p == peek(cx.L, pos)
        Pair(kv) ==
            IF kv.err # "none" THEN Fail(kv.err, kv.pos)
            ELSE MoreFields(cx, kv.pos, depth, DictSet(res, kv.k, kv.v))
    IN IF peek_at_depth(cx.L, p, depth + 1)
       THEN Pair(_decode_key_value(cx.L[p + 1], cx, p + 1, depth + 1))
       ELSE Done(Obj(res), p)

\* "check for nested content": an object one level down, or {}
NestedOrEmpty(cx, p, above, depth) ==
    IF p < Len(cx.L) /\ cx.L[p + 1].depth > above THEN _decode_object(cx, p, depth)
    ELSE Done(Obj(<<>>), p)

\* the first field of a list item, then the fields that follow it one level deeper
FirstField(cx, depth, keyed, k, first) ==
    IF first.err # "none" THEN Fail(first.err, first.pos)
    ELSE IF keyed THEN MoreFields(cx, first.pos, depth, <<Ent(k, first.v)>>)
    ELSE first

_decode_list_item(line, cx, pos, depth) ==
    LET item_content == strip(From(line.content, 2))
        m == ARRAY_HEADER_PATTERN(item_content)
        colon_pos == find_unquoted_colon(item_content)
        Scalar(r) == IF r.err # "none" THEN Fail(r.err, pos) ELSE Done(r.v, pos)
    IN IF line.content = <<"-">> \/ item_content = <<>>
       THEN NestedOrEmpty(cx, peek(cx.L, pos), depth, depth + 1)
       ELSE IF m.ok THEN _decode_list_item_array(m, cx, pos, depth)
       ELSE IF colon_pos # -1
           THEN _decode_list_item_object(item_content, colon_pos, cx, pos, depth)
       ELSE Scalar(parse_primitive(item_content))

_decode_list_item_array(m, cx, pos, depth) ==
    LET key == _parse_key(m.key, cx.opts.expand_paths)
        header == _parse_array_header_from_match(m, ",")
        rest == strip(m.rest)
    IN IF key.err # "none" THEN Fail(key.err, pos)
       ELSE IF header.err # "none" THEN Fail(header.err, pos)
       ELSE FirstField(cx, depth, key.k # <<>>, key.k,
                       DecodeArrayBody(cx, pos, header, rest, rest = <<>>, depth + 2))

_decode_list_item_object(item_content, colon_pos, cx, pos, depth) ==
    LET key_part == strip(Upto(item_content, colon_pos))
        value_part == strip(From(item_content, colon_pos + 1))
        m == ARRAY_HEADER_PATTERN(key_part \o value_part)
        key == _parse_key(key_part, cx.opts.expand_paths)
        Scalar(r) == [err |-> r.err, v |-> r.v, pos |-> pos]
    IN IF value_part # <<>> /\ value_part[1] = "[" /\ m.ok
       THEN _decode_list_item_array(m, cx, pos, depth)
       ELSE IF key.err # "none" THEN Fail(key.err, pos)
       ELSE FirstField(cx, depth, TRUE, key.k,
                       IF value_part # <<>> THEN Scalar(parse_primitive(value_part))
                       ELSE NestedOrEmpty(cx, peek(cx.L, pos), depth + 1, depth + 2))

----------------------------------------------------------------------------
(* decode.py: the root, path expansion, the entry points *)

_decode_root_array(cx, pos) ==
    LET content == cx.L[pos + 1].content
        m == ARRAY_HEADER_PATTERN(content)
        header == _parse_array_header_from_match(m, ",")
        rest == strip(From(content, IndexIn(":", content, 1)))
    IN IF ~m.ok THEN Fail("SyntaxError", pos + 1)
       ELSE IF header.err # "none" THEN Fail(header.err, pos + 1)
       ELSE DecodeArrayBody(cx, pos + 1, header, rest,
                            endswith(rstripSet(content, {":"}), <<"]">>) /\ rest = <<>>, 1)

_decode_root(cx) ==
    LET p == peek(cx.L, 0)
        line == cx.L[p + 1]
        q == peek(cx.L, p + 1)
        Scalar(r) == IF r.err # "none" THEN Fail(r.err, q) ELSE Done(r.v, q)
    IN IF p >= Len(cx.L) THEN Done(Null, p)
       ELSE IF startswith(line.content, <<"[">>) THEN _decode_root_array(cx, p)
       ELSE IF find_unquoted_colon(line.content) # -1 THEN _decode_object(cx, p, 0)
       ELSE IF peek_at_depth(cx.L, q, 0) THEN Fail("SyntaxError", q)
       ELSE Scalar(parse_primitive(line.content))

_is_expandable_path(key) ==
    LET segments == splitChar(key, ".", <<>>) IN
    \A i \in 1..Len(segments) : is_valid_identifier_segment(segments[i])

\* the merged value; the code never raises here
RECURSIVE _merge_values(_, _, _)
RECURSIVE MergeInto(_, _, _)
MergeInto(res, e, strict) ==
    IF e = <<>> THEN res
    ELSE MergeInto(
             IF HasKey(res, e[1].k)
                 THEN DictSet(res, e[1].k, _merge_values(DictGet(res, e[1].k), e[1].v, strict))
             ELSE DictSet(res, e[1].k, e[1].v),
             Tail(e), strict)

_merge_values(existing, new, strict) ==
    IF existing.t = "obj" /\ new.t = "obj" THEN Obj(MergeInto(existing.e, new.e, strict))
    ELSE new

\* [err, e]: the entries of obj after obj[path...] = v
RECURSIVE _set_nested(_, _, _, _)
_set_nested(e, path, v, strict) ==
    IF Len(path) = 1 THEN
        IF HasKey(e, path[1]) THEN
            IF strict THEN [err |-> "TypeError", e |-> e]
            ELSE [err |-> "none",
                  e |-> DictSet(e, path[1], _merge_values(DictGet(e, path[1]), v, strict))]
        ELSE [err |-> "none", e |-> DictSet(e, path[1], v)]
    ELSE LET segment == path[1]
             isobj == HasKey(e, segment) /\ DictGet(e, segment).t = "obj"
             sub == IF isobj THEN DictGet(e, segment).e ELSE <<>>
         IN IF HasKey(e, segment) /\ ~isobj /\ strict THEN [err |-> "TypeError", e |-> e]
            ELSE LET r == _set_nested(sub, Tail(path), v, strict) IN
                 IF r.err # "none" THEN [err |-> r.err, e |-> e]
                 ELSE [err |-> "none", e |-> DictSet(e, segment, Obj(r.e))]

\* [err, v]
RECURSIVE _expand_paths(_, _)
RECURSIVE ExpandEntries(_, _, _)
RECURSIVE ExpandItems(_, _)

\* the for loop of _expand_paths over the entries e of a dict, into res
ExpandEntries(e, res, strict) ==
    IF e = <<>> THEN [err |-> "none", v |-> Obj(res)]
    ELSE LET key == e[1].k
             x == _expand_paths(e[1].v, strict)
             plain(k) ==
                 IF HasKey(res, k) THEN
                     IF strict THEN [err |-> "TypeError", e |-> res]
                     ELSE [err |-> "none",
                           e |-> DictSet(res, k, _merge_values(DictGet(res, k), x.v, strict))]
                 ELSE [err |-> "none", e |-> DictSet(res, k, x.v)]
             r == IF startswith(key, QUOTED_KEY_MARKER)
                      THEN plain(removeprefix(key, QUOTED_KEY_MARKER))
                  ELSE IF Contains(key, ".") /\ _is_expandable_path(key)
                      THEN _set_nested(res, splitChar(key, ".", <<>>), x.v, strict)
                  ELSE plain(key)
         IN IF x.err # "none" THEN [err |-> x.err, v |-> Null]
            ELSE IF r.err # "none" THEN [err |-> r.err, v |-> Null]
            ELSE ExpandEntries(Tail(e), r.e, strict)

ExpandItems(items, strict) ==
    IF items = <<>> THEN [err |-> "none", v |-> <<>>]
    ELSE LET x == _expand_paths(items[1], strict)
             r == ExpandItems(Tail(items), strict)
         IN IF x.err # "none" THEN [err |-> x.err, v |-> <<>>]
            ELSE IF r.err # "none" THEN r
            ELSE [err |-> "none", v |-> <<x.v>> \o r.v]

_expand_paths(v, strict) ==
    IF v.t = "obj" THEN ExpandEntries(v.e, <<>>, strict)
    ELSE IF v.t = "arr" THEN
        LET r == ExpandItems(v.e, strict) IN
        IF r.err # "none" THEN [err |-> r.err, v |-> Null] ELSE [err |-> "none", v |-> Arr(r.v)]
    ELSE [err |-> "none", v |-> v]

\* what a call returns or raises: kind is "value" or the exception class;
\* pos is where the cursor stood when the descent ended
Outcome(kind, v, pos) == [kind |-> kind, v |-> v, pos |-> pos]

decode_lines(ls, opts) ==
    LET parsed == _parse_lines(ls, opts.indent, opts.strict)
        Expanded(pos, x) ==
            IF x.err # "none" THEN Outcome(x.err, Null, pos) ELSE Outcome("value", x.v, pos)
        Root(r) ==
            IF r.err # "none" THEN Outcome(r.err, Null, r.pos)
            ELSE IF ~opts.expand_paths THEN Outcome("value", r.v, r.pos)
            ELSE Expanded(r.pos, _expand_paths(r.v, opts.strict))
    IN IF parsed.err # "none" THEN Outcome(parsed.err, Null, 0)
       ELSE IF parsed.L = <<>> THEN Outcome("value", Null, 0)
       ELSE Root(_decode_root([L |-> parsed.L, opts |-> opts]))

decode(text, opts) == decode_lines(splitChar(text, LF, <<>>), opts)

DefaultDecodeOptions == [strict |-> FALSE, expand_paths |-> FALSE, indent |-> 2]

----------------------------------------------------------------------------
(* The caller.  A run is one use of the library: the caller either hands a    *)
(* value to encode and the text to decode, or hands decode a text of its own. *)
(* given records what the text was built from, so that a result can be        *)
(* compared with what the caller put in.                                      *)

NoOutcome == Outcome("none", Null, 0)
NoGiven == [fam |-> "none"]

\* no decode is being followed: no _Cursor exists
NoProbe == [report |-> "none", entry |-> 0, left |-> 0]
NoCursor ==
    [status |-> "idle", lines |-> <<>>, pos |-> 0, stack |-> <<>>, probe |-> NoProbe]

Init ==
    /\ pc = "start"
    /\ value = Null
    /\ eopts = DefaultEncodeOptions
    /\ lines = <<>>
    /\ dopts = DefaultDecodeOptions
    /\ given = NoGiven
    /\ source = <<>>
    /\ collected = <<>>
    /\ waited = 0
    /\ result = NoOutcome
    /\ cursor = NoCursor
    /\ steps = 0

\* the caller holds a text and DecodeOptions o
Give(g, text, o) ==
    /\ pc = "start"
    /\ given' = g
    /\ lines' = text
    /\ dopts' = o
    /\ pc' = "lines"
    /\ UNCHANGED <<value, eopts, result, stream, cursor, steps>>

\* decode_lines(lines, options)
DecodeLines ==
    /\ pc = "lines"
    /\ result' = decode_lines(lines, dopts)
    /\ pc' = "done"
    /\ UNCHANGED <<value, eopts, lines, dopts, given, stream, cursor, steps>>

StrictOrNot == {[DefaultDecodeOptions EXCEPT !.strict = b] : b \in BOOLEAN}

\* all sequences over S of length lo..hi
SeqsOf(S, lo, hi) == UNION {[1..n -> S] : n \in lo..hi}

KeyK == <<"k">>
KeyJ == <<"j">>

----------------------------------------------------------------------------
(* Arrays with a declared length: inline arrays *)

MaxDeclared == 3
MaxTokens == 2

\* a token: its text and the value it stands for
Tok(txt, val) == [txt |-> txt, val |-> val]
InlineTokens(d) ==
    { Tok(<<"1">>, IntVal(1)), Tok(<<"x">>, Str(<<"x">>)),
      Tok(<<QT, "a", d, "b", QT>>, Str(<<"a", d, "b">>)), Tok(<<>>, Str(<<>>)) }

TokTexts(toks) == [i \in 1..Len(toks) |-> toks[i].txt]
TokVals(toks) == [i \in 1..Len(toks) |-> toks[i].val]

Bracket(n, d) == <<"[">> \o NatStr(n) \o (IF d = "," THEN <<>> ELSE <<d>>) \o <<"]">>

ArraySites == {"field", "root", "item", "first"}

\* an array header with its body lines at the given site; body lines are
\* written for depth 1 and pushed down where the site nests the header
AtSite(site, header, body) ==
    LET deeper(k) == [i \in 1..Len(body) |-> Spaces(k) \o body[i]] IN
    IF site = "field" THEN <<KeyK \o header>> \o body
    ELSE IF site = "root" THEN <<header>> \o body
    ELSE IF site = "item"
        THEN <<KeyK \o <<"[", "1", "]", ":">>, <<SP, SP, "-", SP>> \o header>> \o deeper(4)
    ELSE <<KeyK \o <<"[", "1", "]", ":">>, <<SP, SP, "-", SP>> \o KeyJ \o header>> \o deeper(4)

\* the array decoded at the site, out of the decoded root
SiteArray(site, v) ==
    IF site = "field" THEN v.e[1].v
    ELSE IF site = "root" THEN v
    ELSE IF site = "item" THEN v.e[1].v.e[1]
    ELSE v.e[1].v.e[1].e[1].v

InlineText(site, n, d, toks) ==
    AtSite(site, Bracket(n, d) \o <<":", SP>> \o join(<<d>>, TokTexts(toks)), <<>>)

GiveInline ==
    /\ pc = "start"
    /\ \E site \in ArraySites, n \in 0..MaxDeclared, d \in {",", "|"}, o \in StrictOrNot :
           \E toks \in SeqsOf(InlineTokens(d), 1, MaxTokens) :
               /\ strip(join(<<d>>, TokTexts(toks))) # <<>>
               /\ Give([fam |-> "inline", site |-> site, n |-> n, d |-> d, toks |-> toks],
                       InlineText(site, n, d, toks), o)

InlineMismatch ==
    pc = "done" /\ given.fam = "inline" /\ Len(given.toks) # given.n

\* C4: an inline array whose token count differs from the declared length
\* raises ValueError under strict, and otherwise decodes to exactly the
\* parsed tokens, neither padded nor truncated to the declared length.
C4_InlineLengthMismatch ==
    InlineMismatch =>
        IF dopts.strict THEN result.kind = "ValueError"
        ELSE /\ result.kind = "value"
             /\ SiteArray(given.site, result.v) = Arr(TokVals(given.toks))

\* a non-strict decode of more tokens than declared, and of fewer
C4_Witness ==
    /\ InlineMismatch /\ ~dopts.strict /\ result.kind = "value"
    /\ Len(given.toks) > given.n /\ given.n > 0

----------------------------------------------------------------------------
(* Arrays with a declared length: tabular arrays *)

MaxRows == 2

\* the cell in row i, column j of a table written with delimiter d
Cell(i, j, d) ==
    IF j = 1 THEN Tok(NatStr(i), IntVal(i))
    ELSE IF j = 2 THEN Tok(<<"x">>, Str(<<"x">>))
    ELSE Tok(<<QT, "a", d, "b", QT>>, Str(<<"a", d, "b">>))

FieldLists == {<<"a">>, <<"a", "b">>}

RowText(i, w, d) == <<SP, SP>> \o join(<<d>>, [j \in 1..w |-> Cell(i, j, d).txt])

\* what row i of width w stands for under the field list: missing cells are
\* the empty string, cells beyond the field list are gone
RowObject(i, w, d, fields) ==
    Obj([j \in 1..Len(fields) |->
            Ent(<<fields[j]>>, IF j <= w THEN Cell(i, j, d).val ELSE Str(<<>>))])

TabularHeader(n, d, fields) ==
    Bracket(n, d) \o <<"{">> \o join(<<d>>, [j \in 1..Len(fields) |-> <<fields[j]>>]) \o <<"}", ":">>

TabularText(site, n, d, fields, widths) ==
    AtSite(site, TabularHeader(n, d, fields),
           [i \in 1..Len(widths) |-> RowText(i, widths[i], d)])

GiveTabular ==
    /\ pc = "start"
    /\ \E site \in ArraySites, n \in 0..MaxDeclared, d \in {",", "|"}, o \in StrictOrNot,
          fields \in FieldLists :
           \E widths \in SeqsOf(1..(Len(fields) + 1), 0, MaxRows) :
               Give([fam |-> "tabular", site |-> site, n |-> n, d |-> d,
                     fields |-> fields, widths |-> widths],
                    TabularText(site, n, d, fields, widths), o)

Min(a, b) == IF a < b THEN a ELSE b

TabularDone == pc = "done" /\ given.fam = "tabular"

\* the rows the array takes: the declared number, or all there are if fewer
RowsTaken == Min(given.n, Len(given.widths))

\* C5: without strict a tabular row is read against the field list, a short
\* row padded with empty strings and the extra cells of a long row dropped;
\* under strict a row of another width raises ValueError.
C5_TabularRowWidth ==
    TabularDone =>
        IF dopts.strict
        THEN (\E i \in 1..RowsTaken : given.widths[i] # Len(given.fields))
                => result.kind = "ValueError"
        ELSE /\ result.kind = "value"
             /\ LET rows == SiteArray(given.site, result.v).e
                IN /\ Len(rows) = RowsTaken
                   /\ \A i \in 1..Len(rows) :
                        rows[i] = RowObject(i, given.widths[i], given.d, given.fields)

\* a non-strict decode of a short row and a long row
C5_Witness ==
    /\ TabularDone /\ ~dopts.strict /\ result.kind = "value"
    /\ Len(given.fields) = 2 /\ given.n = 2 /\ given.widths = <<1, 3>>

----------------------------------------------------------------------------
(* Arrays with a declared length: list arrays *)

MaxItems == 2

ItemKinds == {"prim", "obj"}

\* the i-th item of a list, written for depth 1
ItemText(i, kind) ==
    <<SP, SP, "-", SP>> \o (IF kind = "obj" THEN <<"a", ":", SP>> ELSE <<>>) \o NatStr(i)

ItemValue(i, kind) ==
    IF kind = "obj" THEN Obj(<<Ent(<<"a">>, IntVal(i))>>) ELSE IntVal(i)

\* what follows the items: nothing, a line at the items' depth that is no
\* item, or a line at depth 0
Tails == {"none", "same", "top"}

ListText(site, n, kinds, tail) ==
    LET items == [i \in 1..Len(kinds) |-> ItemText(i, kinds[i])]
        body == items \o (IF tail = "same" THEN <<<<SP, SP, "z", ":", SP, "1">>>> ELSE <<>>)
    IN AtSite(site, Bracket(n, ",") \o <<":">>, body)
       \o (IF tail = "top" THEN <<<<"z", ":", SP, "1">>>> ELSE <<>>)

GiveList ==
    /\ pc = "start"
    /\ \E site \in ArraySites, n \in 0..MaxDeclared, o \in StrictOrNot, tail \in Tails :
           \E kinds \in SeqsOf(ItemKinds, 0, MaxItems) :
               Give([fam |-> "list", site |-> site, n |-> n, kinds |-> kinds, tail |-> tail],
                    ListText(site, n, kinds, tail), o)

NextArrays == GiveInline \/ GiveTabular \/ GiveList \/ DecodeLines

SpecArrays == Init /\ [][NextArrays]_vars

ListDone == pc = "done" /\ given.fam = "list"

\* the element lines on offer below the header
Available == IF given.fam = "list" THEN Len(given.kinds) ELSE Len(given.widths)

\* the lines of the text up to and including the header
HeaderLines == IF given.site \in {"field", "root"} THEN 1 ELSE 2

\* C6: a list or tabular array takes at most the declared number of element
\* lines and the cursor stops in front of any further ones; under strict a
\* count of captured elements other than the declared one raises ValueError.
C6_DeclaredLength ==
    (TabularDone \/ ListDone) =>
        /\ result.kind = "value" =>
             /\ Len(SiteArray(given.site, result.v).e) = Min(given.n, Available)
             /\ ListDone => \A i \in 1..Min(given.n, Available) :
                    SiteArray(given.site, result.v).e[i] = ItemValue(i, given.kinds[i])
        /\ result.kind = "value" /\ Available > given.n =>
             result.pos = HeaderLines + given.n
        /\ ~dopts.strict => result.kind = "value"
        /\ dopts.strict /\ Available < given.n => result.kind = "ValueError"

\* more items on offer than declared, decoded without strict
C6_Witness ==
    /\ ListDone /\ ~dopts.strict /\ result.kind = "value"
    /\ given.n = 1 /\ Len(given.kinds) = 2 /\ given.site = "field"

----------------------------------------------------------------------------
(* Round trips: the caller encodes a value and decodes the text it got *)

Hand(g, v, eo, o) ==
    /\ pc = "start"
    /\ given' = g
    /\ value' = v
    /\ eopts' = eo
    /\ dopts' = o
    /\ pc' = "value"
    /\ UNCHANGED <<lines, result, stream, cursor, steps>>

\* text = encode(value, options); decode(text) splits the text at line feeds
Encode ==
    /\ pc = "value"
    /\ lines' = splitChar(encode(value, eopts), LF, <<>>)
    /\ pc' = "lines"
    /\ UNCHANGED <<value, eopts, dopts, given, result, stream, cursor, steps>>

MaxStrLen == 2

StrChars == {"a", "1", SP, "|", ">", "-", "+", QT, BS, ":", ",", LF}

\* {"k": s}
GiveString ==
    /\ pc = "start"
    /\ \E s \in SeqsOf(StrChars, 0, MaxStrLen) :
           Hand([fam |-> "string", s |-> s], Obj(<<Ent(KeyK, Str(s))>>),
                DefaultEncodeOptions, DefaultDecodeOptions)

MaxElems == 2

Elems ==
    {IntVal(1), Str(<<"a">>), Obj(<<>>), Arr(<<>>), Arr(<<IntVal(1)>>),
     Obj(<<Ent(<<"a">>, IntVal(1))>>),
     Obj(<<Ent(<<"a">>, IntVal(1)), Ent(<<"b">>, Str(<<"a">>))>>)}

\* where an array can stand: at the root, as an object's field, as the first
\* field of a list item, directly in a list array
EncodeSites == {"root", "field", "first", "nested"}

SiteValue(site, arr) ==
    CASE site = "root" -> Arr(arr)
      [] site = "field" -> Obj(<<Ent(KeyK, Arr(arr))>>)
      [] site = "first" -> Arr(<<Obj(<<Ent(KeyK, Arr(arr)), Ent(KeyJ, IntVal(1))>>)>>)
      [] site = "nested" -> Arr(<<Arr(arr)>>)

GiveArray ==
    /\ pc = "start"
    /\ \E site \in EncodeSites, arr \in SeqsOf(Elems, 0, MaxElems) :
           Hand([fam |-> "site", site |-> site, arr |-> arr], SiteValue(site, arr),
                DefaultEncodeOptions, DefaultDecodeOptions)

MaxChain == 3

ChainLeaves == {IntVal(1), Str(<<"a">>), Str(<<"|">>), Obj(<<>>), Arr(<<IntVal(1)>>)}

\* {k1: {k2: ... leaf}}
RECURSIVE Chain(_, _)
Chain(ks, leaf) ==
    IF ks = <<>> THEN leaf ELSE Obj(<<Ent(Head(ks), Chain(Tail(ks), leaf))>>)

FoldingOptions == [DefaultEncodeOptions EXCEPT !.key_folding = "safe"]
ExpandingOptions == [DefaultDecodeOptions EXCEPT !.expand_paths = TRUE]

\* a chain of single-key objects, alone or beside a sibling entry
GiveChain ==
    /\ pc = "start"
    /\ \E ks \in SeqsOf({<<"a">>, <<"b">>}, 1, MaxChain), leaf \in ChainLeaves, sib \in BOOLEAN :
           Hand([fam |-> "chain", ks |-> ks, leaf |-> leaf, sib |-> sib],
                Obj(Chain(ks, leaf).e \o (IF sib THEN <<Ent(<<"c">>, IntVal(1))>> ELSE <<>>)),
                FoldingOptions, ExpandingOptions)

Next == GiveString \/ GiveArray \/ GiveChain \/ Encode \/ DecodeLines

Spec == Init /\ [][Next]_vars

ArrayDone == pc = "done" /\ given.fam = "site"

\* C1: decode(encode(v)) with default options is v, for every value v made of
\* objects, arrays, null, booleans, numbers and strings
C1_RoundTrip == ArrayDone => result.kind = "value" /\ ValEq(result.v, value)

StringDone == pc = "done" /\ given.fam = "string"

\* C2: for every string s, decode(encode({"k": s}))["k"] is s with default options
C2_StringRoundTrip ==
    StringDone =>
        /\ result.kind = "value"
        /\ result.v.t = "obj"
        /\ HasKey(result.v.e, KeyK)
        /\ DictGet(result.v.e, KeyK) = Str(given.s)

\* the array format a header line shows: a field list, values after the colon,
\* or neither
FormatOf(line) ==
    IF Contains(line, "{") THEN "tabular"
    ELSE IF line[Len(line)] = ":" THEN "list"
    ELSE "inline"

HeaderLine(site) == IF site \in {"root", "field"} THEN 1 ELSE 2

AllPrimitive(arr) ==
    arr # <<>> /\ \A i \in 1..Len(arr) : arr[i].t \in {"null", "bool", "num", "str"}

Uniform(arr) ==
    /\ arr # <<>>
    /\ \A i \in 1..Len(arr) :
        /\ arr[i].t = "obj"
        /\ arr[i].e # <<>>
        /\ {arr[i].e[j].k : j \in 1..Len(arr[i].e)} = {arr[1].e[j].k : j \in 1..Len(arr[1].e)}
        /\ \A j \in 1..Len(arr[i].e) : arr[i].e[j].v.t \in {"null", "bool", "num", "str"}

SelectedFormat(arr) ==
    IF AllPrimitive(arr) THEN "inline" ELSE IF Uniform(arr) THEN "tabular" ELSE "list"

\* C8: at every array site the encoder emits a non-empty all-primitive array
\* inline, otherwise a non-empty array of non-empty objects with identical key
\* sets and primitive values tabular, otherwise a list
C8_FormatSelection ==
    pc \in {"lines", "done"} /\ given.fam = "site" =>
        FormatOf(lines[HeaderLine(given.site)]) = SelectedFormat(given.arr)

ChainDone == pc = "done" /\ given.fam = "chain"

\* C9: decode(encode(v, key_folding = safe), expand_paths = true) is v for
\* every value whose nested chains are single-key objects with identifier keys
C9_FoldExpandInverse == ChainDone => result.kind = "value" /\ ValEq(result.v, value)

----------------------------------------------------------------------------
(* Multi-line values: block scalars *)

MaxBody == 3

\* a line at the block's indentation, a deeper line, an empty line, a line of
\* spaces
BodyKinds == {"x", "y", "blank", "space"}

BodyLine(kind) ==
    CASE kind = "x" -> <<SP, SP, "x">>
      [] kind = "y" -> <<SP, SP, SP, SP, "y">>
      [] kind = "blank" -> <<>>
      [] kind = "space" -> <<SP, SP>>

BlankKinds == {"blank", "space"}

\* a: <indicator>, the body, and perhaps a sibling entry after it
BlockText(ind, kinds, sib) ==
    <<(<<"a", ":", SP>> \o ind)>>
        \o [i \in 1..Len(kinds) |-> BodyLine(kinds[i])]
        \o (IF sib THEN <<(<<"b", ":", SP, "1">>)>> ELSE <<>>)

\* the first line that is not blank sets the indentation: deeper lines come after it
GiveBlock ==
    /\ pc = "start"
    /\ \E ind \in BlockIndicators, kinds \in SeqsOf(BodyKinds, 0, MaxBody),
          sib \in BOOLEAN, o \in StrictOrNot :
           /\ \A i \in 1..Len(kinds) : kinds[i] = "y" => \E j \in 1..(i - 1) : kinds[j] = "x"
           /\ Give([fam |-> "block", ind |-> ind, kinds |-> kinds, sib |-> sib],
                   BlockText(ind, kinds, sib), o)

BlockDone == pc = "done" /\ given.fam = "block"

RECURSIVE TrailingBreaks(_)
TrailingBreaks(s) ==
    IF s # <<>> /\ s[Len(s)] = LF THEN 1 + TrailingBreaks(SubSeq(s, 1, Len(s) - 1)) ELSE 0

RECURSIVE TrailingBlank(_)
TrailingBlank(kinds) ==
    IF kinds # <<>> /\ kinds[Len(kinds)] \in BlankKinds
    THEN 1 + TrailingBlank(SubSeq(kinds, 1, Len(kinds) - 1))
    ELSE 0

HasContent(kinds) == \E i \in 1..Len(kinds) : kinds[i] \notin BlankKinds

Suffix(ind) == ind[Len(ind)]

\* the decoded string of key a
BlockValue == DictGet(result.v.e, <<"a">>).s

BlockDecoded ==
    /\ result.kind = "value"
    /\ result.v.t = "obj"
    /\ HasKey(result.v.e, <<"a">>)
    /\ DictGet(result.v.e, <<"a">>).t = "str"

\* C7 as stated: the - suffix leaves no trailing line break, the default leaves
\* exactly one after non-empty content, and the + suffix keeps every captured
\* trailing empty line plus one trailing line break
C7_ChompingAsStated ==
    BlockDone =>
        /\ BlockDecoded
        /\ Suffix(given.ind) = "-" => TrailingBreaks(BlockValue) = 0
        /\ Suffix(given.ind) \notin {"-", "+"} /\ HasContent(given.kinds)
               => TrailingBreaks(BlockValue) = 1
        /\ Suffix(given.ind) = "+"
               => TrailingBreaks(BlockValue) = TrailingBlank(given.kinds) + 1

\* C7 amended: the - suffix leaves no trailing line break; after content with a
\* line that is not blank the default leaves exactly one line break and the +
\* suffix every captured trailing empty line plus one line break; a block of n
\* blank lines and nothing else decodes to the empty string, except under +
\* with n >= 2, where it decodes to n line breaks
C7_Chomping ==
    BlockDone =>
        /\ BlockDecoded
        /\ Suffix(given.ind) = "-" => TrailingBreaks(BlockValue) = 0
        /\ HasContent(given.kinds) =>
               TrailingBreaks(BlockValue) =
                   (IF Suffix(given.ind) = "-" THEN 0
                    ELSE IF Suffix(given.ind) = "+" THEN TrailingBlank(given.kinds) + 1
                    ELSE 1)
        /\ ~HasContent(given.kinds) =>
               BlockValue = (IF Suffix(given.ind) = "+" /\ Len(given.kinds) >= 2
                             THEN [i \in 1..Len(given.kinds) |-> LF]
                             ELSE <<>>)

C7_Witness ==
    /\ BlockDone
    /\ given.ind = <<"|", "+">>
    /\ given.kinds = <<"x", "blank", "space">>
    /\ given.sib
    /\ BlockDecoded
    /\ BlockValue = <<"x", LF, LF, LF>>

----------------------------------------------------------------------------
(* Multi-line values: heredocs *)

MaxHeredoc == 2

\* a plain line, a line that looks like an entry, a line that contains the tag,
\* a line with an escape sequence
HeredocLines ==
    {<<"x">>, <<SP, SP, "y", ":", SP, "1">>, <<"a", "T">>, <<"a", BS, "n">>}

HeredocText(body, sib) ==
    <<(<<"k", ":", SP, "<", "<", "T">>)>> \o body \o <<(<<"T">>)>>
        \o (IF sib THEN <<(<<"b", ":", SP, "1">>)>> ELSE <<>>)

GiveHeredoc ==
    /\ pc = "start"
    /\ \E body \in SeqsOf(HeredocLines, 0, MaxHeredoc), sib \in BOOLEAN, o \in StrictOrNot :
           Give([fam |-> "heredoc", body |-> body, sib |-> sib], HeredocText(body, sib), o)

HeredocDone == pc = "done" /\ given.fam = "heredoc"

\* C3: the value of k: <<T is the raw lines up to the line that is T, joined by
\* line breaks, and the entry after the terminator is decoded as a sibling
C3_Heredoc ==
    HeredocDone =>
        /\ result.kind = "value"
        /\ ValEq(result.v,
                 Obj(<<Ent(KeyK, Str(join(<<LF>>, given.body)))>>
                         \o (IF given.sib THEN <<Ent(<<"b">>, IntVal(1))>> ELSE <<>>)))

----------------------------------------------------------------------------
(* Keys under path expansion *)

MaxSegments == 3

KeySites == {"root", "nested", "item", "second", "tabular", "header"}

Quoted(s) == <<QT>> \o s \o <<QT>>

\* the lines that put the key text kt at a site
KeyedText(site, kt) ==
    CASE site = "root" -> <<kt \o <<":", SP, "1">>>>
      [] site = "nested" -> <<(<<"k", ":">>), <<SP, SP>> \o kt \o <<":", SP, "1">>>>
      [] site = "item" ->
            <<(<<"k", "[", "1", "]", ":">>), <<SP, SP, "-", SP>> \o kt \o <<":", SP, "1">>>>
      [] site = "second" ->
            <<(<<"k", "[", "1", "]", ":">>), <<SP, SP, "-", SP, "j", ":", SP, "1">>,
              <<SP, SP, SP, SP>> \o kt \o <<":", SP, "1">>>>
      [] site = "tabular" ->
            <<(<<"k", "[", "1", "]", "{">> \o kt \o <<"}", ":">>), <<SP, SP, "1">>>>
      [] site = "header" -> <<kt \o <<"[", "1", "]", ":", SP, "1">>>>

\* the value the text stands for when the key's entries are e
SiteObject(site, e) ==
    CASE site \in {"root", "header"} -> Obj(e)
      [] site = "nested" -> Obj(<<Ent(KeyK, Obj(e))>>)
      [] site \in {"item", "tabular"} -> Obj(<<Ent(KeyK, Arr(<<Obj(e)>>))>>)
      [] site = "second" -> Obj(<<Ent(KeyK, Arr(<<Obj(<<Ent(KeyJ, IntVal(1))>> \o e)>>))>>)

GiveKey ==
    /\ pc = "start"
    /\ \E site \in KeySites, ks \in SeqsOf({<<"a">>, <<"b">>}, 1, MaxSegments),
          quoted \in BOOLEAN, o \in StrictOrNot :
           Give([fam |-> "key", site |-> site, ks |-> ks, quoted |-> quoted],
                KeyedText(site, IF quoted THEN Quoted(join(<<".">>, ks)) ELSE join(<<".">>, ks)),
                [o EXCEPT !.expand_paths = TRUE])

----------------------------------------------------------------------------
(* Value tokens of a key/value line *)

MaxFollow == 2

\* a value token: its text, what kind of token it is, and the string it
\* stands for when it stands for one
Token(txt, kind, s) == [txt |-> txt, kind |-> kind, s |-> s]

Tokens ==
    { Token(<<QT, "x">>, "malformed", <<>>),
      Token(<<QT, "a", BS, "q", QT>>, "malformed", <<>>),
      Token(<<QT, "a", BS, QT>>, "malformed", <<>>),
      Token(<<QT, "a", QT>>, "double", <<"a">>),
      Token(<<"<", "<">>, "tagless", <<>>),
      Token(<<"'", "a", "'">>, "single", <<"a">>),
      Token(<<"'", "'">>, "single", <<>>),
      Token(<<"'", "a", BS, "'", "b", "'">>, "single", <<"a", "'", "b">>),
      Token(<<"'", "{", QT, "a", QT, "}", "'">>, "single", <<"{", QT, "a", QT, "}">>) }

\* what may follow the line: an empty line, a sibling entry, text that is no
\* entry, the same text indented
FollowLines ==
    {<<>>, <<"b", ":", SP, "1">>, <<"p", "r", "o", "s", "e">>, <<SP, SP, "y">>}

EntryLike == {<<>>, <<"b", ":", SP, "1">>}

GiveToken ==
    /\ pc = "start"
    /\ \E tok \in Tokens, follow \in SeqsOf(FollowLines, 0, MaxFollow), o \in StrictOrNot :
           Give([fam |-> "token", tok |-> tok, follow |-> follow],
                <<KeyK \o <<":", SP>> \o tok.txt>> \o follow, o)

TokenDone == pc = "done" /\ given.fam = "token"

\* C12: a value token that opens with a double quote and is unterminated or
\* holds an unsupported escape ends the decode in SyntaxError, whatever follows
C12_MalformedQuotedFatal ==
    TokenDone /\ given.tok.kind = "malformed" => result.kind = "SyntaxError"

\* C13: the value << with no tag ends the decode in SyntaxError
C13_HeredocWithoutTag ==
    TokenDone /\ given.tok.kind = "tagless" => result.kind = "SyntaxError"

\* C14: a value token in single quotes decodes to the text between the
\* quotes, \' unescaped, double quotes and structural characters kept
C14_SingleQuoted ==
    TokenDone /\ given.tok.kind = "single"
              /\ (\A i \in 1..Len(given.follow) : given.follow[i] \in EntryLike) =>
        /\ result.kind = "value"
        /\ result.v.t = "obj"
        /\ HasKey(result.v.e, KeyK)
        /\ DictGet(result.v.e, KeyK) = Str(given.tok.s)

----------------------------------------------------------------------------
(* Indentation *)

MaxIndent == 4

\* leading spaces of a line: the spaces before its first other character
RECURSIVE LeadingSpaces(_)
LeadingSpaces(s) == IF s # <<>> /\ s[1] = SP THEN 1 + LeadingSpaces(Tail(s)) ELSE 0

\* a: on a line that may open with a tab, and b: 1 behind spaces and tabs
GiveIndented ==
    /\ pc = "start"
    /\ \E first \in {<<>>, <<TAB>>}, prefix \in SeqsOf({SP, TAB}, 0, MaxIndent),
          o \in StrictOrNot :
           Give([fam |-> "indented", first |-> first, prefix |-> prefix],
                <<first \o <<"a", ":">>, prefix \o <<"b", ":", SP, "1">>>>, o)

IndentedDone == pc = "done" /\ given.fam = "indented"

\* what the two lines stand for when the second is at a depth
AtDepth(depth) ==
    IF depth = 0 THEN Obj(<<Ent(<<"a">>, Obj(<<>>)), Ent(<<"b">>, IntVal(1))>>)
    ELSE IF depth = 1 THEN Obj(<<Ent(<<"a">>, Obj(<<Ent(<<"b">>, IntVal(1))>>))>>)
    ELSE Obj(<<Ent(<<"a">>, Obj(<<>>))>>)

\* C16: under strict a line with a tab in its indentation and a line whose
\* leading spaces are no multiple of the indent width are errors; without
\* strict neither is, and the depth is the leading spaces divided by the
\* width, rounded down
C16_StrictIndentation ==
    IndentedDone =>
        /\ dopts.strict /\ (Contains(given.prefix, TAB) \/ given.first # <<>>)
               => result.kind = "SyntaxError"
        /\ dopts.strict /\ LeadingSpaces(given.prefix) % dopts.indent # 0
               => result.kind = "SyntaxError"
        /\ ~dopts.strict =>
               /\ result.kind = "value"
               /\ ValEq(result.v, AtDepth(LeadingSpaces(given.prefix) \div dopts.indent))

NextTexts ==
    GiveBlock \/ GiveHeredoc \/ GiveKey \/ GiveToken \/ GiveIndented \/ DecodeLines

SpecTexts == Init /\ [][NextTexts]_vars

KeyDone == pc = "done" /\ given.fam = "key"

KeyLeaf == IF given.site = "header" THEN Arr(<<IntVal(1)>>) ELSE IntVal(1)

\* C10: with expand_paths a quoted key stays one key, verbatim and without the
\* marker, wherever it stands, and an unquoted dotted key of identifiers
\* becomes nested objects
C10_QuotedKeysBypass ==
    KeyDone =>
        /\ result.kind = "value"
        /\ ValEq(result.v,
                 SiteObject(given.site,
                             IF given.quoted THEN <<Ent(join(<<".">>, given.ks), KeyLeaf)>>
                             ELSE Chain(given.ks, KeyLeaf).e))

----------------------------------------------------------------------------
(* Path expansion over several entries *)

MaxEntries == 2

MergePaths ==
    {<<(<<"a">>)>>, <<(<<"a">>), <<"b">>>>, <<(<<"a">>), <<"c">>>>, <<(<<"a">>), <<"b">>, <<"c">>>>}

MergeLeaves ==
    { IntVal(1),
      Obj(<<Ent(<<"b">>, IntVal(2))>>),
      Obj(<<Ent(<<"c">>, IntVal(1))>>),
      Obj(<<Ent(<<"b">>, Obj(<<Ent(<<"d">>, IntVal(2))>>))>>) }

\* the lines of the entry key: v at an indentation, v a number or an object
\* of such entries
RECURSIVE EntryLines(_, _, _)
RECURSIVE EntriesLines(_, _)
EntryLines(key, v, ind) ==
    IF v.t = "obj" THEN <<Spaces(ind) \o key \o <<":">>>> \o EntriesLines(v.e, ind + 2)
    ELSE <<Spaces(ind) \o key \o <<":", SP>> \o NatStr(v.d)>>

EntriesLines(e, ind) ==
    IF e = <<>> THEN <<>> ELSE EntryLines(e[1].k, e[1].v, ind) \o EntriesLines(Tail(e), ind)

\* entries under pairwise different dotted keys, in the order written
GiveMerge ==
    /\ pc = "start"
    /\ \E es \in SeqsOf([ks : MergePaths, v : MergeLeaves], 1, MaxEntries), o \in StrictOrNot :
           /\ \A i, j \in 1..Len(es) : i # j => es[i].ks # es[j].ks
           /\ Give([fam |-> "merge", es |-> es],
                   EntriesLines([i \in 1..Len(es) |-> Ent(join(<<".">>, es[i].ks), es[i].v)], 0),
                   [o EXCEPT !.expand_paths = TRUE])

NextValidation == GiveInline \/ GiveTabular \/ GiveList \/ GiveMerge \/ DecodeLines

SpecValidation == Init /\ [][NextValidation]_vars

MergeDone == pc = "done" /\ given.fam = "merge"

\* v landing on key k of the entries e: two objects are united key by key,
\* anything else is a conflict that the new value wins
RECURSIVE Land(_, _, _)
RECURSIVE LandAll(_, _)
Land(r, k, v) ==
    IF ~HasKey(r.e, k) THEN [conflict |-> r.conflict, e |-> DictSet(r.e, k, v)]
    ELSE IF DictGet(r.e, k).t = "obj" /\ v.t = "obj"
        THEN [conflict |-> LandAll([conflict |-> r.conflict, e |-> DictGet(r.e, k).e], v.e).conflict,
              e |-> DictSet(r.e, k,
                            Obj(LandAll([conflict |-> r.conflict, e |-> DictGet(r.e, k).e], v.e).e))]
    ELSE [conflict |-> TRUE, e |-> DictSet(r.e, k, v)]

LandAll(r, e) == IF e = <<>> THEN r ELSE LandAll(Land(r, e[1].k, e[1].v), Tail(e))

\* the entries written, each as the chain of objects its path stands for
Chains(es) == [i \in 1..Len(es) |-> Ent(es[i].ks[1], Chain(Tail(es[i].ks), es[i].v))]

Landed == LandAll([conflict |-> FALSE, e |-> <<>>], Chains(given.es))

\* C15: an expanded path that lands on an existing value unites two objects
\* recursively without error, strict or not; a landing where the two are not
\* both objects is an error under strict and otherwise the new value wins
C15_ExpansionMerging ==
    MergeDone =>
        IF dopts.strict /\ Landed.conflict THEN result.kind = "TypeError"
        ELSE result.kind = "value" /\ ValEq(result.v, Obj(Landed.e))

Mismatched ==
    \/ pc = "done" /\ given.fam = "inline" /\ Len(given.toks) # given.n
    \/ pc = "done" /\ given.fam = "tabular"
          /\ \/ Len(given.widths) # given.n
             \/ \E i \in 1..Len(given.widths) : given.widths[i] # Len(given.fields)
    \/ pc = "done" /\ given.fam = "list" /\ Len(given.kinds) # given.n
    \/ MergeDone /\ Landed.conflict

\* C11: without strict no decode ends in a validation error; a length
\* mismatch, a row of another width and a path-expansion conflict all end
\* in a value, the conflict in the value where the later entry has won
C11_ValidationStrictOnly ==
    pc = "done" /\ ~dopts.strict =>
        /\ result.kind \notin {"ValueError", "TypeError"}
        /\ Mismatched => result.kind = "value"
        /\ MergeDone => ValEq(result.v, Obj(Landed.e))

\* a conflict decoded without strict: a.b: 1 and then a: with b: 2 under it
C11_Witness ==
    /\ MergeDone /\ ~dopts.strict /\ Landed.conflict
    /\ result.kind = "value"
    /\ given.es = <<[ks |-> <<(<<"a">>), <<"b">>>>, v |-> IntVal(1)],
                   [ks |-> <<(<<"a">>)>>, v |-> Obj(<<Ent(<<"b">>, IntVal(2))>>)]>>
    /\ ValEq(result.v, Obj(<<Ent(<<"a">>, Obj(<<Ent(<<"b">>, IntVal(2))>>))>>))

----------------------------------------------------------------------------
(* decode_stream_async: lines arriving one by one *)

MaxStream == 3
MaxWaits == 2

StreamLines ==
    { <<"a", ":", SP, "1">>, <<"b", ":">>, <<SP, SP, "c", ":", SP, "2">>,
      <<"k", "[", "2", "]", ":">>, <<SP, SP, "-", SP, "x">>, <<>>, <<"a", ":", SP, QT, "x">> }

\* the buffer C17 rules out: the newest line put in front
Collect_prepending(cs, line) == <<line>> \o cs

\* collected.append(line)
Collect(cs, line) == Append(cs, line)

\* decode_stream_async(lines, options) is called on a source that will yield text
GiveStream ==
    /\ pc = "start"
    /\ \E text \in SeqsOf(StreamLines, 0, MaxStream), o \in StrictOrNot :
           /\ given' = [fam |-> "stream", text |-> text]
           /\ source' = text
           /\ dopts' = o
           /\ pc' = "stream"
           /\ UNCHANGED <<value, eopts, lines, result, collected, waited, cursor, steps>>

\* async for: the source has no line ready and the coroutine is suspended
Wait ==
    /\ pc = "stream"
    /\ waited < MaxWaits
    /\ waited' = waited + 1
    /\ UNCHANGED <<pc, value, eopts, lines, dopts, given, result, source, collected, cursor, steps>>

\* async for: the source yields its next line
Arrive ==
    /\ pc = "stream"
    /\ source # <<>>
    /\ collected' = Collect(collected, Head(source))
    /\ source' = Tail(source)
    /\ UNCHANGED <<pc, value, eopts, lines, dopts, given, result, waited, cursor, steps>>

\* the source is exhausted: return decode_lines(collected, opts)
Exhausted ==
    /\ pc = "stream"
    /\ source = <<>>
    /\ result' = decode_lines(collected, dopts)
    /\ pc' = "done"
    /\ UNCHANGED <<value, eopts, lines, dopts, given, source, collected, waited, cursor, steps>>

NextStream == GiveStream \/ Wait \/ Arrive \/ Exhausted

SpecStream == Init /\ [][NextStream]_vars

\* C17: decode_stream_async decodes nothing before the source is exhausted,
\* has then collected every line in arrival order, and returns or raises what
\* decode_lines does on the whole sequence, however the arrivals were timed
C17_StreamIsBuffer ==
    /\ pc = "stream" =>
           /\ result = NoOutcome
           /\ given.text = collected \o source
    /\ pc = "done" /\ given.fam = "stream" =>
           /\ collected = given.text
           /\ result = decode_lines(given.text, dopts)

\* a nested text decoded after waits between its lines
C17_Witness ==
    /\ pc = "done" /\ given.fam = "stream"
    /\ given.text = <<(<<"b", ":">>), <<SP, SP, "c", ":", SP, "2">>, <<"a", ":", SP, "1">>>>
    /\ waited = MaxWaits
    /\ result.kind = "value"
    /\ ValEq(result.v, Obj(<<Ent(<<"b">>, Obj(<<Ent(<<"c">>, IntVal(2))>>)), Ent(<<"a">>, IntVal(1))>>))

----------------------------------------------------------------------------
(* Blocks of entries bounded by depth *)

MaxLines == 4
MaxDepth == 2

\* where a line stands: at a depth, or Blank for an empty line
Blank == 0 - 1
LinePlaces == Blank..MaxDepth

\* the i-th line of a text: k<i>: <i> at its depth, or empty
DepthLine(i, place) ==
    IF place = Blank THEN <<>>
    ELSE Spaces(2 * place) \o <<"k">> \o NatStr(i) \o <<":", SP>> \o NatStr(i)

\* an opening line p: or none, and then the lines at their places
DepthText(opener, places) ==
    (IF opener THEN <<(<<"p", ":">>)>> ELSE <<>>)
        \o [i \in 1..Len(places) |-> DepthLine(i, places[i])]

GiveDepths ==
    /\ pc = "start"
    /\ \E opener \in BOOLEAN, places \in SeqsOf(LinePlaces, 0, MaxLines), o \in StrictOrNot :
           Give([fam |-> "depths", opener |-> opener, places |-> places],
                DepthText(opener, places), o)

NextBlocks == GiveDepths \/ GiveTabular \/ GiveList \/ DecodeLines

SpecBlocks == Init /\ [][NextBlocks]_vars

DepthsDone == pc = "done" /\ given.fam = "depths"

\* from line i of places on, the first line that is not blank and not at
\* depth d; one past the last line when there is none
RECURSIVE RunEnd(_, _, _)
RunEnd(places, i, d) ==
    IF i > Len(places) THEN i
    ELSE IF places[i] \in {Blank, d} THEN RunEnd(places, i + 1, d)
    ELSE i

\* the entries written on the lines i..j-1 that are not blank
RECURSIVE EntriesOf(_, _, _)
EntriesOf(places, i, j) ==
    IF i >= j THEN <<>>
    ELSE (IF places[i] = Blank THEN <<>> ELSE <<Ent(<<"k">> \o NatStr(i), IntVal(i))>>)
             \o EntriesOf(places, i + 1, j)

\* the blocks of a text by the rule of C18: [v, last], the value and the
\* number of lines of places taken
BlocksOf(opener, places) ==
    LET first == RunEnd(places, 1, Blank)
        inner == RunEnd(places, 1, 1)
        outer == RunEnd(places, IF opener /\ first <= Len(places) /\ places[first] > 0
                                THEN inner ELSE 1, 0)
        nested == opener /\ first <= Len(places) /\ places[first] > 0
    IN IF ~opener /\ first > Len(places) THEN [v |-> Null, last |-> Len(places)]
       ELSE IF ~opener THEN [v |-> Obj(EntriesOf(places, 1, outer)), last |-> outer - 1]
       ELSE IF nested
           THEN [v |-> Obj(<<Ent(<<"p">>, Obj(EntriesOf(places, 1, inner)))>>
                               \o EntriesOf(places, inner, outer)),
                 last |-> outer - 1]
       ELSE [v |-> Obj(<<Ent(<<"p">>, Obj(<<>>))>> \o EntriesOf(places, 1, outer)),
             last |-> outer - 1]

\* C18: an object at depth d takes a line as its entry only when it is the
\* next line that is not blank and its depth is d exactly; the first such
\* line at another depth ends the block and stays unconsumed by it
C18_DepthBoundedBlocks ==
    DepthsDone =>
        /\ result.kind = "value"
        /\ ValEq(result.v, BlocksOf(given.opener, given.places).v)
        /\ result.pos = BlocksOf(given.opener, given.places).last
                            + (IF given.opener THEN 1 ELSE 0)

\* p: with one entry, closed by a line two levels deeper, and a line at
\* depth 0 behind it
C18_Witness ==
    /\ DepthsDone /\ given.opener /\ given.places = <<1, 2, 0>>
    /\ result.kind = "value"
    /\ ValEq(result.v, Obj(<<Ent(<<"p">>, Obj(<<Ent(<<"k", "1">>, IntVal(1))>>))>>))
    /\ result.pos = 2

\* the number of the last line of ls that is not blank, 0 when all are
RECURSIVE LastNonBlank(_)
LastNonBlank(ls) ==
    IF ls = <<>> THEN 0
    ELSE IF strip(ls[Len(ls)]) # <<>> THEN Len(ls)
    ELSE LastNonBlank(SubSeq(ls, 1, Len(ls) - 1))

WellNested ==
    \/ /\ given.fam = "depths"
       /\ \A i \in 1..Len(given.places) :
              /\ given.places[i] <= (IF given.opener THEN 1 ELSE 0)
              /\ \A j \in 1..(i - 1) : given.places[j] = 0 => given.places[i] <= 0
    \/ /\ given.fam = "tabular"
       /\ Len(given.widths) <= given.n
    \/ /\ given.fam = "list"
       /\ Len(given.kinds) <= given.n
       /\ given.tail = "none" \/ (given.tail = "top" /\ given.site # "root")

----------------------------------------------------------------------------
(* Arrays that are items of a list array *)

NestedDone == pc = "done" /\ given.fam = "site" /\ given.site = "nested"

\* the lines below the - [N]: line of the inner array, and the depth of a line
InnerLines == SubSeq(lines, 3, Len(lines))

DepthOf(line) == LeadingSpaces(line) \div dopts.indent

\* C20: an array that is itself an item of a list array is written with its
\* items at the depth the decoder reads them at (two levels below the list
\* item that carries its header), whether it is all primitive
\* or not, and the value comes back from decode(encode(v)) unchanged
C20_NestedArraysRoundTrip ==
    NestedDone =>
        /\ \A i \in 1..Len(InnerLines) :
               DepthOf(InnerLines[i]) >= DepthOf(lines[2]) + 2
        /\ result.kind = "value"
        /\ ValEq(result.v, value)

----------------------------------------------------------------------------
(* Multi-line values: text after a key: token line *)

MaxAfter == 2

\* what the line after the entry may be: a list item, an array header without
\* and with a key, a tabular header with a quoted field name, an entry with a
\* bare and with a quoted key, a markdown heading, prose with a colon, nothing
AfterKinds == {"item", "header", "keyed", "fields", "key", "quoted", "text", "prose", "blank"}

AfterLine(kind) ==
    CASE kind = "item" -> <<"-", SP, "a">>
      [] kind = "header" -> <<"[", "1", "]", ":", SP, "2">>
      [] kind = "keyed" -> <<"k", "[", "1", "]", ":", SP, "2">>
      [] kind = "fields" -> <<"k", "[", "1", "]", "{", QT, "a", SP, "b", QT, "}", ":">>
      [] kind = "key" -> <<"b", ":", SP, "2">>
      [] kind = "quoted" -> <<QT, "q", SP, "r", QT, ":", SP, "2">>
      [] kind = "text" -> <<"#", SP, "H">>
      [] kind = "prose" -> <<"a", SP, "b", ":", SP, "c">>
      [] kind = "blank" -> <<>>
      [] kind = "sibling" -> <<"z", ":", SP, "9">>

\* the kinds the heuristic is to leave to the structural decoders
StructureKinds == {"item", "header", "keyed", "fields", "key", "quoted", "sibling"}

\* the value tokens of the entry: a number, a quoted string, a heredoc opener
EntryTokens ==
    { Token(<<"1">>, "plain", <<>>),
      Token(<<QT, "s", QT>>, "quoted", <<"s">>),
      Token(<<"<", "<", "T">>, "opener", <<>>) }

\* a line of a kind at a depth
Placed(kind, depth) == [kind |-> kind, depth |-> depth]

PlacedText(l, indent_size) ==
    IF l.kind = "blank" THEN <<>> ELSE Spaces(l.depth * indent_size) \o AfterLine(l.kind)

\* the lines after the entry x: token at depth d, a closing sibling included
Following(after, d, closing) ==
    after \o (IF closing THEN <<Placed("sibling", d)>> ELSE <<>>)

\* perhaps p:, then x: token below it or at the root, then the lines after
FollowedText(d, tok, fol, indent_size) ==
    (IF d = 1 THEN <<(<<"p", ":">>)>> ELSE <<>>)
        \o <<(Spaces(d * indent_size) \o <<"x", ":", SP>> \o tok.txt)>>
        \o [i \in 1..Len(fol) |-> PlacedText(fol[i], indent_size)]

PlacedLines(d) ==
    {Placed("blank", 0)} \cup {Placed(k, depth) : k \in AfterKinds \ {"blank"}, depth \in 0..(d + 1)}

GiveFollowed ==
    /\ pc = "start"
    /\ \E d \in 0..1, tok \in EntryTokens, closing \in BOOLEAN, o \in StrictOrNot :
          \E after \in SeqsOf(PlacedLines(d), 0, MaxAfter) :
              Give([fam |-> "followed", d |-> d, tok |-> tok,
                    fol |-> Following(after, d, closing)],
                   FollowedText(d, tok, Following(after, d, closing), o.indent), o)

NextFollowed == GiveFollowed \/ DecodeLines

SpecFollowed == Init /\ [][NextFollowed]_vars

FollowedDone == pc = "done" /\ given.fam = "followed"

\* the scanned lines, and the cursor position behind the entry's line
Scanned == _parse_lines(lines, dopts.indent, dopts.strict).L
AfterEntry == given.d + 1

\* what the probe of the heuristic reports behind the entry's line
Probe == _collect_implicit_multiline(Scanned, AfterEntry, given.d)

\* the index in given.fol of the first line that is not blank, 0 when none
RECURSIVE FirstContent(_, _)
FirstContent(fol, i) ==
    IF i > Len(fol) THEN 0
    ELSE IF fol[i].kind # "blank" THEN i
    ELSE FirstContent(fol, i + 1)

\* the object that holds the entry, and the decoded value of x
Holder == IF given.d = 1 THEN DictGet(result.v.e, <<"p">>) ELSE result.v
EntryValue == DictGet(Holder.e, <<"x">>)

\* C21: when the next non-blank line after key: token begins with a list
\* marker, is an array header (keyed or not, with a field list or not) or is
\* a bare or quoted key followed by a colon, the heuristic consumes no line,
\* the token is parsed as an ordinary primitive and the line is left to the
\* structural decoders
C21_ImplicitAbort ==
    FollowedDone /\ given.tok.kind = "plain" /\ FirstContent(given.fol, 1) # 0
                 /\ given.fol[FirstContent(given.fol, 1)].kind \in StructureKinds =>
        /\ ~Probe.found
        /\ Probe.pos = AfterEntry
        /\ result.kind = "value" => EntryValue = parse_primitive(given.tok.txt).v

\* the kinds that are a sibling or parent key or an array header
StopKinds == {"header", "keyed", "fields", "key", "quoted", "sibling"}

\* the index in fol of the first line from i on that ends the capture below a
\* key at depth d, Len(fol) + 1 when none does
RECURSIVE StopAt(_, _, _)
StopAt(fol, i, d) ==
    IF i > Len(fol) THEN i
    ELSE IF fol[i].kind \in StopKinds /\ fol[i].depth <= d THEN i
    ELSE StopAt(fol, i + 1, d)

\* the first n lines of fol without the blank ones at their end
RECURSIVE CapturedLines(_, _)
CapturedLines(fol, n) ==
    IF n = 0 THEN <<>>
    ELSE IF fol[n].kind = "blank" THEN CapturedLines(fol, n - 1)
    ELSE SubSeq(fol, 1, n)

\* the token and the captured lines as they stand in the text, one per line
CapturedText(tok, cap, indent_size) ==
    join(<<LF>>, <<tok.txt>> \o [i \in 1..Len(cap) |-> PlacedText(cap[i], indent_size)])

Entered ==
    /\ FollowedDone /\ given.tok.kind = "plain" /\ result.kind # "SyntaxError"
    /\ FirstContent(given.fol, 1) # 0
    /\ given.fol[FirstContent(given.fol, 1)].kind \notin StructureKinds

\* C22: once the heuristic is entered every following line, blank or not, is
\* captured as it stands and joined to the token by line breaks, up to the
\* first line at the key's depth or above it that is a key or an array
\* header; that line is left for the next entry, and blank lines at the end
\* of the captured block are dropped
C22_ImplicitCapture ==
    Entered =>
        LET stop == StopAt(given.fol, 1, given.d)
            text == CapturedText(given.tok, CapturedLines(given.fol, stop - 1), dopts.indent)
        IN /\ Probe.found
           /\ Probe.pos = AfterEntry + stop - 1
           /\ Probe.text = From(text, Len(given.tok.txt) + 1)
           /\ result.kind = "value" =>
                  /\ EntryValue = Str(text)
                  /\ stop <= Len(given.fol) /\ given.fol[stop].kind = "sibling"
                         => HasKey(Holder.e, <<"z">>)

\* the value of x is the token as written, a line break and more text
Extended ==
    /\ EntryValue.t = "str"
    /\ startswith(EntryValue.s, given.tok.txt \o <<LF>>)

\* C23: the heuristic is applied to no value token that is a quoted string or
\* a heredoc opener: a quoted string decodes to that string alone, and neither
\* is ever extended with the text of the lines that follow
C23_HeuristicTriggerGuard ==
    FollowedDone /\ given.tok.kind \in {"quoted", "opener"} /\ result.kind = "value" =>
        /\ ~Extended
        /\ given.tok.kind = "quoted" => EntryValue = Str(given.tok.s)

----------------------------------------------------------------------------
(* Multi-line values: the extent of a block scalar *)

MaxExtent == 3
MaxSpaces == 4

\* the i-th line below the indicator: k<i>: <i> behind n spaces, or empty
ExtentLine(i, n) ==
    IF n = Blank THEN <<>>
    ELSE Spaces(n) \o <<"k">> \o NatStr(i) \o <<":", SP>> \o NatStr(i)

\* a: <indicator> at the root and the lines below it
ExtentText(ind, spaces) ==
    <<(<<"a", ":", SP>> \o ind)>> \o [i \in 1..Len(spaces) |-> ExtentLine(i, spaces[i])]

GiveExtent ==
    /\ pc = "start"
    /\ \E ind \in BlockIndicators, spaces \in SeqsOf(Blank..MaxSpaces, 0, MaxExtent),
          o \in StrictOrNot :
           Give([fam |-> "extent", ind |-> ind, spaces |-> spaces],
                ExtentText(ind, spaces), o)

NextExtent == GiveExtent \/ DecodeLines

SpecExtent == Init /\ [][NextExtent]_vars

ExtentDone == pc = "done" /\ given.fam = "extent"

\* the first line from i on that is not blank, Len(spaces) + 1 when none is
RECURSIVE FirstLine(_, _)
FirstLine(spaces, i) ==
    IF i > Len(spaces) \/ spaces[i] # Blank THEN i ELSE FirstLine(spaces, i + 1)

\* the first line from i on that is not blank and has fewer than b spaces
RECURSIVE BlockEnd(_, _, _)
BlockEnd(spaces, i, b) ==
    IF i > Len(spaces) \/ (spaces[i] # Blank /\ spaces[i] < b) THEN i
    ELSE BlockEnd(spaces, i + 1, b)

\* lines 1..n as the block holds them: b leading spaces removed, blank lines empty
BlockBody(spaces, n, b) ==
    [i \in 1..n |-> IF spaces[i] = Blank THEN <<>> ELSE From(ExtentLine(i, spaces[i]), b)]

\* the scanner accepts the text
Scannable ==
    ~dopts.strict \/ \A i \in 1..Len(given.spaces) : given.spaces[i] % dopts.indent = 0

\* the line at index end, when it is an entry of the root, is decoded as one
SiblingDecoded(end) ==
    end <= Len(given.spaces) /\ given.spaces[end] \div dopts.indent = 0 =>
        /\ HasKey(result.v.e, <<"k">> \o NatStr(end))
        /\ DictGet(result.v.e, <<"k">> \o NatStr(end)) = IntVal(end)

\* where the block scalar below a: leaves the cursor
BlockLeft == _decode_block_scalar(Scanned, dopts.indent, 1, 0, given.ind).pos

\* the block has content when its first non-blank line has at least
\* min_indent spaces; that line's indentation is then the baseline, the block
\* runs up to the first non-blank line with fewer spaces, and its value is
\* the body chomped and joined; without content the value is none_value
ExtentIs(min_indent, none_value) ==
    LET first == FirstLine(given.spaces, 1)
        content == first <= Len(given.spaces) /\ given.spaces[first] >= min_indent
        b == IF content THEN given.spaces[first] ELSE 0
        end == IF content THEN BlockEnd(given.spaces, first, b) ELSE first
    IN /\ BlockDecoded
       /\ BlockValue = (IF content
                        THEN BlockResult(BlockBody(given.spaces, end - 1, b), given.ind)
                        ELSE none_value)
       /\ BlockLeft = end
       /\ SiblingDecoded(end)

\* C24: the first non-blank line after the indicator that is indented more
\* than the parent fixes the baseline; every captured non-blank line has at
\* least the baseline's indentation and loses exactly that many leading
\* spaces; blank lines are captured; the block ends at the first non-blank
\* line indented less than the baseline, which is left for the structural
\* decoders; an indicator without such content decodes to the empty string
C24_BlockExtentAsStated ==
    ExtentDone /\ Scannable => ExtentIs(1, <<>>)

\* what a block of blank lines and nothing else decodes to
KeptBreaks ==
    LET n == FirstLine(given.spaces, 1) - 1
    IN IF Suffix(given.ind) = "+" /\ n >= 2 THEN [i \in 1..n |-> LF] ELSE <<>>

\* C24 amended: the first non-blank line after the indicator fixes the
\* baseline when it is indented by at least one indent width more than the
\* parent; every captured non-blank line has at least the baseline's
\* indentation and loses exactly that many leading spaces; blank lines are
\* captured; the block ends at the first non-blank line indented less than
\* the baseline, which is left for the structural decoders; an indicator
\* without such content decodes to the empty string, except under + with two
\* or more blank lines, which decode to as many line breaks
C24_BlockExtent ==
    ExtentDone /\ Scannable => ExtentIs(dopts.indent, KeptBreaks)

\* a block at baseline 4 with a blank line, ended by a line at 2 spaces
C24_Witness ==
    /\ ExtentDone
    /\ given.ind = <<"|">>
    /\ given.spaces = <<4, Blank, 2>>
    /\ ~dopts.strict
    /\ BlockDecoded
    /\ BlockValue = <<"k", "1", ":", SP, "1", LF>>
    /\ BlockLeft = 3

----------------------------------------------------------------------------
(* Key folding: sibling keys and the depth bound *)

MaxFoldDepth == 3

\* flatten_depth: a bound, or Blank for None
FoldDepths == Blank..MaxFoldDepth

FoldOptions(n) ==
    [FoldingOptions EXCEPT !.flatten_none = (n = Blank),
                           !.flatten_depth = IF n = Blank THEN 0 ELSE n]

FoldLeaves == {IntVal(1), Obj(<<>>), Arr(<<IntVal(1)>>)}

\* the key of the entry beside the chain: a plain one, and dotted ones that
\* read like a folded chain
SiblingKeys == {<<"c">>, <<"a", ".", "b">>, <<"a", ".", "c">>, <<"b", ".", "a">>}

\* the chain's entry with the sibling's entry before or after it, or alone
Beside(chain, sib, first) ==
    IF sib = <<>> THEN Obj(chain.e)
    ELSE IF first THEN Obj(<<Ent(sib, IntVal(2))>> \o chain.e)
    ELSE Obj(chain.e \o <<Ent(sib, IntVal(2))>>)

GiveFolding ==
    /\ pc = "start"
    /\ \E ks \in SeqsOf({<<"a">>, <<"b">>}, 1, MaxChain), leaf \in FoldLeaves,
          sib \in SiblingKeys \cup {<<>>}, first \in BOOLEAN, n \in FoldDepths :
           Hand([fam |-> "folding", ks |-> ks, leaf |-> leaf, sib |-> sib, n |-> n],
                Beside(Chain(ks, leaf), sib, first), FoldOptions(n), DefaultDecodeOptions)

NextFolding == GiveFolding \/ Encode \/ DecodeLines

SpecFolding == Init /\ [][NextFolding]_vars

FoldingDone == pc \in {"lines", "done"} /\ given.fam = "folding"

\* the key text of an emitted line: what stands before the bracket or the colon
EmittedKey(line) ==
    LET Key(content, m) ==
            IF m.ok THEN m.key ELSE Upto(content, find_unquoted_colon(content))
    IN Key(lstripSet(line, {SP}), ARRAY_HEADER_PATTERN(lstripSet(line, {SP})))

Segments(key) == Len(splitChar(key, ".", <<>>))

\* the chain can be folded at all: two identifier keys on top of each other
Foldable == Len(given.ks) >= 2

\* the sibling is the chain's first key or begins with its folded prefix
Collides ==
    /\ given.sib # <<>>
    /\ \/ given.sib = given.ks[1]
       \/ startswith(given.sib, given.ks[1] \o <<".">>)

\* C25: under safe folding a chain is collapsed into a dotted key only if
\* that key does not collide with a sibling key of the same object; when it
\* would, the key is emitted unfolded, and no object yields two entries with
\* the same key text
C25_SafeFoldingAvoidsCollisions ==
    FoldingDone =>
        /\ Foldable /\ Collides => \E i \in 1..Len(lines) : lines[i] = given.ks[1] \o <<":">>
        /\ \A i, j \in 1..Len(lines) :
               /\ i # j
               /\ LeadingSpaces(lines[i]) = 0
               /\ LeadingSpaces(lines[j]) = 0
               => EmittedKey(lines[i]) # EmittedKey(lines[j])

\* C28: with flatten_depth n no key that folding emits has more than n
\* segments, and with flatten_depth None the whole chain is folded into one key
C28_FoldDepthBound ==
    FoldingDone /\ Foldable /\ given.sib \in {<<>>, <<"c">>} =>
        /\ given.n # Blank =>
               \A i \in 1..Len(lines) :
                   Contains(EmittedKey(lines[i]), ".") => Segments(EmittedKey(lines[i])) <= given.n
        /\ given.n = Blank =>
               \E i \in 1..Len(lines) : EmittedKey(lines[i]) = join(<<".">>, given.ks)

----------------------------------------------------------------------------
(* Delimiters: the bracket of every array header *)

MaxValues == 2

Delimiters == {",", "|", TAB}

\* arrays of primitives, a tabular array and a list array
DelimitedArrays ==
    SeqsOf({IntVal(1), Str(<<"a">>)}, 0, MaxValues)
        \cup { <<Obj(<<Ent(<<"a">>, IntVal(1)), Ent(<<"b">>, IntVal(2))>>)>>,
               <<IntVal(1), Obj(<<Ent(<<"a">>, IntVal(1))>>)>> }

\* where an array can stand, the value of a folded key included
DelimitedSites == EncodeSites \cup {"folded"}

DelimitedValue(site, arr) ==
    IF site = "folded" THEN Chain(<<(<<"a">>), <<"b">>>>, Arr(arr)) ELSE SiteValue(site, arr)

GiveDelimited ==
    /\ pc = "start"
    /\ \E site \in DelimitedSites, arr \in DelimitedArrays, d \in Delimiters :
           Hand([fam |-> "delimited", site |-> site, arr |-> arr],
                DelimitedValue(site, arr),
                [(IF site = "folded" THEN FoldingOptions ELSE DefaultEncodeOptions)
                     EXCEPT !.delimiter = d],
                IF site = "folded" THEN ExpandingOptions ELSE DefaultDecodeOptions)

NextDelimited == GiveDelimited \/ Encode \/ DecodeLines

SpecDelimited == Init /\ [][NextDelimited]_vars

DelimitedDone == pc = "done" /\ given.fam = "delimited"

\* a line without its indentation and its list marker, matched against the
\* header pattern
HeaderOf(line) ==
    LET Item(content) ==
            ARRAY_HEADER_PATTERN(IF startswith(content, <<"-", SP>>) THEN From(content, 2)
                                 ELSE content)
    IN Item(lstripSet(line, {SP}))

\* C26: at every array site the bracket of the emitted header holds the
\* delimiter when it is not the comma, so that the decoder splits the values
\* at the delimiter the encoder joined them with
C26_DelimiterInEveryHeader ==
    DelimitedDone =>
        /\ eopts.delimiter # "," =>
               \A i \in 1..Len(lines) :
                   HeaderOf(lines[i]).ok => HeaderOf(lines[i]).delim = eopts.delimiter
        /\ AllPrimitive(given.arr) => result.kind = "value" /\ ValEq(result.v, value)

----------------------------------------------------------------------------
(* Keys: when a key or a field name is quoted *)

MaxKeyLen == 2

KeyChars == {"a", "1", SP, "-", ":", "|", ",", QT}

\* {key: 1}, and {"k": [{key: 1, "z": 2}]} with the key as a tabular field name
NamedValue(site, key) ==
    IF site = "entry" THEN Obj(<<Ent(key, IntVal(1))>>)
    ELSE Obj(<<Ent(KeyK, Arr(<<Obj(<<Ent(key, IntVal(1)), Ent(<<"z">>, IntVal(2))>>)>>))>>)

GiveNamed ==
    /\ pc = "start"
    /\ \E site \in {"entry", "field"}, key \in SeqsOf(KeyChars, 0, MaxKeyLen) \ {<<"z">>},
          d \in Delimiters :
           Hand([fam |-> "named", site |-> site, key |-> key], NamedValue(site, key),
                [DefaultEncodeOptions EXCEPT !.delimiter = d], DefaultDecodeOptions)

NextNamed == GiveNamed \/ Encode \/ DecodeLines

SpecNamed == Init /\ [][NextNamed]_vars

NamedDone == pc \in {"lines", "done"} /\ given.fam = "named"

\* the first line of the text when the key is written as name
NamedLine(name) ==
    IF given.site = "entry" THEN name \o <<":", SP, "1">>
    ELSE KeyK \o _format_bracket(1, eopts.delimiter)
             \o <<"{">> \o name \o <<eopts.delimiter, "z", "}", ":">>

\* the unquoted-string rule for the active delimiter, and no internal space
SafeKey == is_safe_unquoted(given.key, eopts.delimiter) /\ ~Contains(given.key, SP)

\* C27: an object key or tabular field name is emitted unquoted only if it
\* satisfies the unquoted-string rule for the active delimiter and holds no
\* space; otherwise it is emitted in double quotes, escaped
C27_KeyQuoting ==
    NamedDone =>
        /\ lines[1] = NamedLine(given.key) => SafeKey
        /\ ~SafeKey => lines[1] = NamedLine(<<QT>> \o escape_string(given.key) \o <<QT>>)

----------------------------------------------------------------------------
(* decode.py, step by step: the cursor during one decode.  cursor.stack      *)
(* holds the decoder loops that are running, the innermost last; one step is *)
(* one evaluation of the innermost loop's condition and, when it holds, one  *)
(* pass through its body up to the call of the next loop.  The values the    *)
(* decoders build are left to decode_lines; what is followed here is where   *)
(* the cursor stands, which loops run and whether the decode raised.         *)

\* the while loop of _decode_object and the "more fields" loops of the
\* list-item decoders
ObjectFrame(depth) == [op |-> "object", depth |-> depth]

\* the while loop of _decode_list_items
ListFrame(depth, want) == [op |-> "list", depth |-> depth, want |-> want, have |-> 0]

\* the while loop of _decode_tabular_rows
RowsFrame(depth, header) ==
    [op |-> "rows", depth |-> depth, header |-> header, want |-> header.length, have |-> 0]

\* the while loop of _decode_block_scalar; block_indent -1 is None
BlockFrame(min_indent) == [op |-> "block", min_indent |-> min_indent, block_indent |-> -1]

\* the while loop of _collect_implicit_multiline; got is "lines holds a line
\* that is not blank"
ProbeFrame(start_pos, parent_depth, value_part) ==
    [op |-> "probe", start_pos |-> start_pos, parent_depth |-> parent_depth,
     value_part |-> value_part, got |-> FALSE]

\* what the code between two loop conditions does: it raises, or it leaves the
\* cursor at pos and calls the loops of push, the last one first; probe tells
\* whether _collect_implicit_multiline was called and returned at once
Raises(pos) == [ok |-> FALSE, pos |-> pos, push |-> <<>>, probe |-> "none"]
Goes(pos, push) == [ok |-> TRUE, pos |-> pos, push |-> push, probe |-> "none"]

\* the cursor the first-line lookahead of _collect_implicit_multiline is made
\* with: one that moves with it
ProbeLookahead_moving(L, pos) == peek(L, pos)

\* the position of the cursor after the first-line lookahead of
\* _collect_implicit_multiline, which is made with a local peek_pos
ProbeLookahead(L, pos) == pos

\* _Cursor.advance without its last statement
advance_staying(L, pos) == peek(L, pos)

\* _Cursor.advance: the position after the line peek returns was taken
advance(L, pos) == peek(L, pos) + 1

\* a local variable of the code: Body with v standing for the value e had when
\* it was assigned
Assigned(e, Body(_)) == CHOOSE r \in {Body(v) : v \in {e}} : TRUE

ArrayBodyEnter(opts, pos, header, rest, as_list, depth) ==
    IF header.fields # <<>> THEN Goes(pos, <<RowsFrame(depth, header)>>)
    ELSE IF as_list THEN Goes(pos, <<ListFrame(depth, header.length)>>)
    ELSE IF _decode_inline_values(rest, header, opts).err # "none" THEN Raises(pos)
    ELSE Goes(pos, <<>>)

\* a matched header: the key and the header are parsed, then the array's form
\* is chosen; rows and items are at depth
HeaderEnter(opts, pos, m, depth) ==
    Assigned(_parse_array_header_from_match(m, ","), LAMBDA header :
    Assigned(strip(m.rest), LAMBDA rest :
        IF _parse_key(m.key, opts.expand_paths).err # "none" THEN Raises(pos)
        ELSE IF header.err # "none" THEN Raises(pos)
        ELSE ArrayBodyEnter(opts, pos, header, rest, rest = <<>>, depth)))

\* "check for nested content": cursor.peek(), then _decode_object when the
\* next line is deeper than above
NestedEnter(L, pos, above, depth) ==
    Assigned(peek(L, pos), LAMBDA p :
        IF p < Len(L) /\ L[p + 1].depth > above THEN Goes(p, <<ObjectFrame(depth)>>)
        ELSE Goes(p, <<>>))

\* key: token, when the token is no block indicator: the first-line test of
\* _collect_implicit_multiline, then its loop or the token as it stands
TokenEnter(L, pos, depth, value_part) ==
    Assigned(peek(L, pos), LAMBDA peek_pos :
        IF peek_pos >= Len(L) \/ ImplicitBailsOut(L[peek_pos + 1].content)
        THEN [ok |-> parse_primitive(value_part).err = "none",
              pos |-> ProbeLookahead(L, pos), push |-> <<>>, probe |-> "absent"]
        ELSE Goes(ProbeLookahead(L, pos), <<ProbeFrame(pos, depth, value_part)>>))

\* key: value, after the colon was found
ColonEnter(L, opts, pos, depth, key_part, value_part) ==
    IF _parse_key(key_part, opts.expand_paths).err # "none" THEN Raises(pos)
    ELSE IF value_part = <<>> THEN NestedEnter(L, pos, depth, depth + 1)
    ELSE IF value_part \in BlockIndicators
        THEN Goes(pos, <<BlockFrame((depth + 1) * opts.indent)>>)
    ELSE TokenEnter(L, pos, depth, value_part)

\* _decode_key_value up to the loop it calls
KeyValueEnter(L, opts, content, pos, depth) ==
    Assigned(ARRAY_HEADER_PATTERN(content), LAMBDA m :
    Assigned(find_unquoted_colon(content), LAMBDA colon_pos :
        IF m.ok THEN HeaderEnter(opts, pos, m, depth + 1)
        ELSE IF colon_pos = -1 THEN Raises(pos)
        ELSE Assigned(strip(Upto(content, colon_pos)), LAMBDA key_part :
             Assigned(strip(From(content, colon_pos + 1)), LAMBDA value_part :
                 ColonEnter(L, opts, pos, depth, key_part, value_part)))))

\* the fields that follow the first field of a list item are read after it
ThenFields(first, depth) ==
    IF first.ok THEN Goes(first.pos, <<ObjectFrame(depth + 1)>> \o first.push) ELSE first

\* _decode_list_item_array up to the loop it calls
ListItemArrayEnter(opts, m, pos, depth) ==
    Assigned(HeaderEnter(opts, pos, m, depth + 2), LAMBDA body :
        IF _parse_key(m.key, opts.expand_paths).k # <<>> THEN ThenFields(body, depth)
        ELSE body)

\* key: value in a list item, when it is no array
ListItemFieldEnter(L, opts, pos, depth, key_part, value_part) ==
    IF _parse_key(key_part, opts.expand_paths).err # "none" THEN Raises(pos)
    ELSE IF value_part # <<>>
        THEN IF parse_primitive(value_part).err # "none" THEN Raises(pos)
             ELSE ThenFields(Goes(pos, <<>>), depth)
    ELSE ThenFields(NestedEnter(L, pos, depth + 1, depth + 2), depth)

\* _decode_list_item_object up to the loop it calls
ListItemObjectEnter(L, opts, item_content, colon_pos, pos, depth) ==
    Assigned(strip(Upto(item_content, colon_pos)), LAMBDA key_part :
    Assigned(strip(From(item_content, colon_pos + 1)), LAMBDA value_part :
    Assigned(ARRAY_HEADER_PATTERN(key_part \o value_part), LAMBDA m :
        IF value_part # <<>> /\ value_part[1] = "[" /\ m.ok
        THEN ListItemArrayEnter(opts, m, pos, depth)
        ELSE ListItemFieldEnter(L, opts, pos, depth, key_part, value_part))))

\* _decode_list_item up to the loop it calls
ListItemEnter(L, opts, content, pos, depth) ==
    Assigned(strip(From(content, 2)), LAMBDA item_content :
    Assigned(ARRAY_HEADER_PATTERN(item_content), LAMBDA m :
    Assigned(find_unquoted_colon(item_content), LAMBDA colon_pos :
        IF content = <<"-">> \/ item_content = <<>>
        THEN NestedEnter(L, pos, depth, depth + 1)
        ELSE IF m.ok THEN ListItemArrayEnter(opts, m, pos, depth)
        ELSE IF colon_pos # -1
            THEN ListItemObjectEnter(L, opts, item_content, colon_pos, pos, depth)
        ELSE IF parse_primitive(item_content).err # "none" THEN Raises(pos)
        ELSE Goes(pos, <<>>))))

\* a root array: the header line is taken and parsed
RootArrayEnter(opts, content, pos) ==
    Assigned(ARRAY_HEADER_PATTERN(content), LAMBDA m :
    Assigned(strip(From(content, IndexIn(":", content, 1))), LAMBDA rest :
        IF ~m.ok THEN Raises(pos)
        ELSE Assigned(_parse_array_header_from_match(m, ","), LAMBDA header :
                 IF header.err # "none" THEN Raises(pos)
                 ELSE ArrayBodyEnter(opts, pos, header, rest,
                                     endswith(rstripSet(content, {":"}), <<"]">>)
                                         /\ rest = <<>>, 1))))

\* a root primitive: the line is taken and must be the only one
RootScalarEnter(L, content, pos) ==
    Assigned(peek(L, pos), LAMBDA q :
        IF peek_at_depth(L, q, 0) THEN Raises(q)
        ELSE IF parse_primitive(content).err # "none" THEN Raises(q)
        ELSE Goes(q, <<>>))

\* _decode_root up to the loop it calls
RootEnter(L, opts) ==
    Assigned(peek(L, 0), LAMBDA p :
        IF p >= Len(L) THEN Goes(p, <<>>)
        ELSE Assigned(L[p + 1].content, LAMBDA content :
                 IF startswith(content, <<"[">>)
                 THEN RootArrayEnter(opts, content, advance(L, 0))
                 ELSE IF find_unquoted_colon(content) # -1 THEN Goes(p, <<ObjectFrame(0)>>)
                 ELSE RootScalarEnter(L, content, advance(L, 0))))

Top(c) == c.stack[Len(c.stack)]
Below(c) == SubSeq(c.stack, 1, Len(c.stack) - 1)

\* the exception leaves every loop as it stands
Raised(c, pos) == [c EXCEPT !.status = "raised", !.pos = pos]

\* the loop goes on as frame, after r
Entering(c, frame, entry, r) ==
    LET report == IF r.probe = "absent"
                  THEN [report |-> "absent", entry |-> entry, left |-> r.pos]
                  ELSE c.probe
    IN IF r.ok
       THEN [c EXCEPT !.status = "running", !.pos = r.pos,
                      !.stack = Append(Below(c), frame) \o r.push, !.probe = report]
       ELSE [Raised(c, r.pos) EXCEPT !.probe = report]

\* break, or the loop condition is false
Leaving(c, pos) == [c EXCEPT !.pos = pos, !.stack = Below(c)]

\* the decode goes on, or it is over
Settle(c) ==
    /\ cursor' = c
    /\ steps' = steps + 1
    /\ pc' = IF c.status = "running" THEN "descent" ELSE "done"
    /\ UNCHANGED <<value, eopts, lines, dopts, given, result, stream>>

Running(op) == pc = "descent" /\ cursor.stack # <<>> /\ Top(cursor).op = op

\* the cursor when _decode_root has come to its first loop
Begun(L, r) ==
    [Entering(NoCursor, <<>>, 0, r) EXCEPT !.lines = L, !.stack = r.push]

\* decode_lines: the lines are scanned, the cursor is made, _decode_root begins
Scan ==
    /\ pc = "lines"
    /\ Settle(Assigned(_parse_lines(lines, dopts.indent, dopts.strict), LAMBDA parsed :
           IF parsed.err # "none" THEN Raised(NoCursor, 0)
           ELSE IF parsed.L = <<>> THEN [NoCursor EXCEPT !.status = "returned"]
           ELSE Begun(parsed.L, RootEnter(parsed.L, dopts))))

\* one evaluation of "while True" in _decode_object or in a "more fields" loop
ObjectStep ==
    /\ Running("object")
    /\ Settle(Assigned(peek(cursor.lines, cursor.pos), LAMBDA p :
           IF peek_at_depth(cursor.lines, p, Top(cursor).depth)
           THEN Entering(cursor, Top(cursor), advance(cursor.lines, cursor.pos),
                         KeyValueEnter(cursor.lines, dopts, cursor.lines[p + 1].content,
                                       advance(cursor.lines, cursor.pos),
                                       Top(cursor).depth))
           ELSE Leaving(cursor, p)))

\* the end of an array's loop: the count is validated in strict mode
Closing(c, frame, pos) ==
    IF dopts.strict /\ frame.have # frame.want THEN Raised(c, pos) ELSE Leaving(c, pos)

IsListItem(content) == startswith(content, <<"-", SP>>) \/ content = <<"-">>

\* one evaluation of "while len(result) < expected_length" in _decode_list_items
ListStep ==
    /\ Running("list")
    /\ Settle(Assigned(peek(cursor.lines, cursor.pos), LAMBDA p :
       Assigned(Top(cursor), LAMBDA frame :
           IF frame.have >= frame.want THEN Closing(cursor, frame, cursor.pos)
           ELSE IF /\ peek_at_depth(cursor.lines, p, frame.depth)
                   /\ IsListItem(cursor.lines[p + 1].content)
               THEN Entering(cursor, [frame EXCEPT !.have = @ + 1],
                             advance(cursor.lines, cursor.pos),
                             ListItemEnter(cursor.lines, dopts, cursor.lines[p + 1].content,
                                           advance(cursor.lines, cursor.pos), frame.depth))
           ELSE Closing(cursor, frame, p))))

\* a row is split and its cells are parsed: TRUE when that raises
RowRaises(content, header, strict) ==
    Assigned(split_by_delimiter(content, header.delimiter), LAMBDA values :
        \/ Len(values) # Len(header.fields) /\ strict
        \/ \E i \in 1..Len(header.fields) :
               parse_primitive(PadOrTruncate(values, Len(header.fields))[i]).err # "none")

\* one evaluation of "while len(result) < header.length" in _decode_tabular_rows
RowsStep ==
    /\ Running("rows")
    /\ Settle(Assigned(peek(cursor.lines, cursor.pos), LAMBDA p :
       Assigned(Top(cursor), LAMBDA frame :
           IF frame.have >= frame.want THEN Closing(cursor, frame, cursor.pos)
           ELSE IF ~peek_at_depth(cursor.lines, p, frame.depth)
               THEN Closing(cursor, frame, p)
           ELSE IF RowRaises(cursor.lines[p + 1].content, frame.header, dopts.strict)
               THEN Raised(cursor, advance(cursor.lines, cursor.pos))
           ELSE Entering(cursor, [frame EXCEPT !.have = @ + 1],
                         advance(cursor.lines, cursor.pos),
                         Goes(advance(cursor.lines, cursor.pos), <<>>)))))

\* the line is captured and the loop goes on as frame
Captured(c, frame) == [c EXCEPT !.pos = @ + 1, !.stack = Append(Below(c), frame)]

\* the body of the loop of _decode_block_scalar
BlockLine(c, frame, raw, current_indent) ==
    IF strip(raw) = <<>> THEN Captured(c, frame)
    ELSE IF frame.block_indent = -1 /\ current_indent < frame.min_indent
        THEN Leaving(c, c.pos)
    ELSE IF frame.block_indent # -1 /\ current_indent < frame.block_indent
        THEN Leaving(c, c.pos)
    ELSE Captured(c, [frame EXCEPT !.block_indent =
                                       IF @ = -1 THEN current_indent ELSE @])

\* one evaluation of "while cursor.pos < len(cursor.lines)" in _decode_block_scalar
BlockStep ==
    /\ Running("block")
    /\ Settle(IF cursor.pos >= Len(cursor.lines) THEN Leaving(cursor, cursor.pos)
              ELSE Assigned(cursor.lines[cursor.pos + 1].raw, LAMBDA raw :
                       BlockLine(cursor, Top(cursor), raw,
                                 Len(raw) - Len(lstripSet(raw, {SP})))))

\* the return of _collect_implicit_multiline after its loop: the text, or the
\* cursor is put back and the token is parsed as it stands
ProbeLeaving(c, frame) ==
    LET back == [c EXCEPT !.pos = frame.start_pos,
                          !.stack = Below(c),
                          !.probe = [report |-> "absent", entry |-> frame.start_pos,
                                     left |-> frame.start_pos]]
    IN IF frame.got
       THEN [c EXCEPT !.stack = Below(c),
                      !.probe = [report |-> "found", entry |-> frame.start_pos,
                                 left |-> c.pos]]
       ELSE IF parse_primitive(frame.value_part).err # "none"
           THEN [back EXCEPT !.status = "raised"]
       ELSE back

\* the stop condition of the loop of _collect_implicit_multiline
ProbeStops(line, parent_depth) ==
    /\ line.depth <= parent_depth
    /\ \/ LooksLikeKey(line.content)
       \/ startswith(line.content, <<"[">>) /\ HasSub(line.content, <<"]", ":">>)

\* one evaluation of "while cursor.pos < len(cursor.lines)" in
\* _collect_implicit_multiline
ProbeStep ==
    /\ Running("probe")
    /\ Settle(IF cursor.pos >= Len(cursor.lines) THEN ProbeLeaving(cursor, Top(cursor))
              ELSE Assigned(cursor.lines[cursor.pos + 1], LAMBDA line :
                       IF line.content = <<>> THEN Captured(cursor, Top(cursor))
                       ELSE IF ProbeStops(line, Top(cursor).parent_depth)
                           THEN ProbeLeaving(cursor, Top(cursor))
                       ELSE Captured(cursor, [Top(cursor) EXCEPT !.got = TRUE])))

\* _decode_root returns and decode_lines with it
Return ==
    /\ pc = "descent"
    /\ cursor.stack = <<>>
    /\ Settle([cursor EXCEPT !.status = "returned"])

Descent == Scan \/ ObjectStep \/ ListStep \/ RowsStep \/ BlockStep \/ ProbeStep \/ Return

NextDescent ==
    \/ GiveDepths \/ GiveList \/ GiveTabular \/ GiveBlock \/ GiveToken
    \/ Scan \/ ObjectStep \/ ListStep \/ RowsStep \/ BlockStep \/ ProbeStep \/ Return

SpecDescent == Init /\ [][NextDescent]_vars

\* a step of a decode that is under way: every action of Descent is one, and
\* nothing else is
Tick ==
    /\ pc \in {"lines", "descent"}
    /\ steps' = steps + 1

\* decode_lines is an ordinary call: once made, it is not left waiting
SpecDescentFair == SpecDescent /\ WF_steps(Tick)

\* the steps leave the cursor where decode_lines says the decode leaves it,
\* and raise where it raises
StepsAgree ==
    pc = "done" /\ cursor.status # "idle" =>
        /\ (cursor.status = "returned") = (decode_lines(lines, dopts).kind = "value")
        /\ cursor.pos = decode_lines(lines, dopts).pos

----------------------------------------------------------------------------
(* The cursor's position during a decode *)

DescentOver == pc = "done" /\ cursor.status \in {"returned", "raised"}

\* the position lies within the scanned lines
CursorInBounds ==
    cursor.status # "idle" =>
        0 <= cursor.pos /\ cursor.pos <= Len(cursor.lines)

\* a probe that reported no continuation left the cursor where it found it
ProbeRestores == cursor.probe.report = "absent" => cursor.probe.left = cursor.probe.entry

\* the step is the probe's return with the cursor put back to start_pos
Rewinds ==
    /\ Running("probe")
    /\ cursor'.pos = Top(cursor).start_pos
    /\ cursor'.stack = Below(cursor)

\* C30: throughout a decode the cursor's position lies between 0 and the
\* number of scanned lines; it never decreases except when the implicit-
\* multiline probe returns and puts it back exactly to its value at probe
\* entry; and whenever the probe reports no continuation the position is the
\* one at probe entry
C30_CursorInvariant ==
    /\ [](CursorInBounds /\ ProbeRestores)
    /\ [][cursor'.pos >= cursor.pos \/ Rewinds]_vars

\* the probe has just looked past an empty line at a sibling entry and
\* reported no continuation
C30_Witness ==
    /\ pc = "descent"
    /\ cursor.probe.report = "absent"
    /\ peek(cursor.lines, cursor.probe.entry) > cursor.probe.entry
    /\ peek(cursor.lines, cursor.probe.entry) < Len(cursor.lines)
    /\ cursor.pos = cursor.probe.entry

\* the step is one iteration of the innermost loop, and the cursor moved on or
\* the loop, or the decode with it, is over
IterationProgress ==
    pc = "descent" /\ cursor.stack # <<>> =>
        \/ cursor'.pos > cursor.pos
        \/ Len(cursor'.stack) < Len(cursor.stack)
        \/ cursor'.status = "raised"

\* C29: a decode_lines call that was made returns a value or raises, for
\* every text and option setting, and every iteration of a decoder loop
\* (object entries, list items, tabular rows, block scalar, implicit-multiline
\* capture) advances the cursor or exits the loop
C29_DecodingTerminates ==
    /\ (pc = "lines") ~> DescentOver
    /\ [][IterationProgress]_vars

\* a decode that returned after its capture loop took lines up to the last one
C29_Witness ==
    /\ DescentOver
    /\ cursor.status = "returned"
    /\ cursor.probe.report = "found"
    /\ cursor.probe.left >= cursor.probe.entry + 2
    /\ cursor.pos = Len(lines)

============================================================================
